---- MODULE Spec2Model ----
(***************************************************************************)
(* A model of rag-automotive-analysis: the query orchestrator (RAGEngine,  *)
(* src/src/rag_engine.py) and the vector store adapter (VectorStoreManager,*)
(* src/src/vector_store.py).                                               *)
(*                                                                         *)
(* Text is modelled by TLA+ strings, character by character (Len, SubSeq   *)
(* and \o), so that str.lower() and the substring test `in` are computed   *)
(* and not assumed.  The hosted services (the LLM chain and the Chroma     *)
(* backend) are nondeterministic: every call either raises or returns one  *)
(* of a small set of values.                                               *)
(***************************************************************************)
EXTENDS Integers, Sequences, FiniteSets, TLC

VARIABLES
    messages,        \* RAGEngine.memory.chat_memory.messages
    search_kwargs,   \* RAGEngine.qa_chain.retriever.search_kwargs
    lastCall,        \* the last RAGEngine call: its inputs, chain invocations, result
    vectorstore,     \* VectorStoreManager.vectorstore: None or a handle
    dirExists,       \* persist_directory exists on disk
    dbExists,        \* persist_directory / "chroma.sqlite3" exists on disk
    collection,      \* the entries of the persisted collection, in insertion order
    initialized,     \* history: a create or load completed since construction and the last delete
    persistTried,    \* history: the disk held an index at first, or a create or load was called since the last delete
    vsCall,          \* the last VectorStoreManager call: its inputs, backend calls, outcome
    running,         \* ChatInterface.running
    chatCall,        \* the last input the chat shell processed, and what it did with it
    docCall,         \* the last DocumentProcessor call: the files it read, its result
    rag,             \* main.py's rag: None, or the RAGEngine it constructed
    setupCall        \* the last run of setup.py's step 4: the answer typed, the adapter calls made

vars == <<messages, search_kwargs, lastCall,
          vectorstore, dirExists, dbExists, collection, initialized, persistTried, vsCall,
          running, chatCall, docCall, rag, setupCall>>

engineVars == <<messages, search_kwargs, lastCall>>
storeVars == <<vectorstore, dirExists, dbExists, collection, initialized, persistTried, vsCall>>
shellVars == <<running, chatCall>>
docVars == <<docCall>>
scriptVars == <<rag, setupCall>>

(***************************************************************************)
(* Python values                                                           *)
(***************************************************************************)

\* Python's None (no string of the model is spelled like this)
None == "<None>"

\* truth value of an Optional[str]: None and "" are falsy
Truthy(v) == v # None /\ v # ""

UpperLetters == "ABCDEFGHIJKLMNOPQRSTUVWXYZ"
LowerLetters == "abcdefghijklmnopqrstuvwxyz"

\* str.lower() on one character
LowerChar(c) ==
    IF \E i \in 1..Len(UpperLetters) : SubSeq(UpperLetters, i, i) = c
    THEN LET i == CHOOSE j \in 1..Len(UpperLetters) : SubSeq(UpperLetters, j, j) = c
         IN  SubSeq(LowerLetters, i, i)
    ELSE c

RECURSIVE lower_chars(_)
\* str.lower(), character by character
lower_chars(s) ==
    IF Len(s) = 0 THEN ""
    ELSE LowerChar(SubSeq(s, 1, 1)) \o lower_chars(SubSeq(s, 2, Len(s)))

\* Python's `sub in s` on strings
Contains(sub, s) ==
    \E i \in 1..(Len(s) - Len(sub) + 1) : SubSeq(s, i, i + Len(sub) - 1) = sub

\* the characters str.strip() removes
Whitespace == " \t\n\r"

IsSpace(c) == \E i \in 1..Len(Whitespace) : SubSeq(Whitespace, i, i) = c

RECURSIVE lstrip(_)
\* str.lstrip()
lstrip(s) ==
    IF Len(s) > 0 /\ IsSpace(SubSeq(s, 1, 1)) THEN lstrip(SubSeq(s, 2, Len(s))) ELSE s

RECURSIVE rstrip(_)
\* str.rstrip()
rstrip(s) ==
    IF Len(s) > 0 /\ IsSpace(SubSeq(s, Len(s), Len(s)))
    THEN rstrip(SubSeq(s, 1, Len(s) - 1))
    ELSE s

\* strip() that leaves the trailing whitespace in place
strip_leading_only(s) == lstrip(s)

\* str.strip()
strip(s) == rstrip(lstrip(s))

(***************************************************************************)
(* Bounds of the model                                                     *)
(***************************************************************************)

\* a call is started only while the history holds at most this many messages
MaxHistory == 2

\* the chain returns at most this many source chunks
MaxSources == 1

(***************************************************************************)
(* The inputs and the external services of the query orchestrator          *)
(***************************************************************************)

\* questions asked: keyword in upper case, several keywords, one keyword, none
Questions ==
    {"BMW Revenue", "Profit and revenue", "growth of profit", "Tesla cars"}

\* the company and year arguments of query_with_filter
Companies == {None, "", "BMW"}
Years == {None, "2023"}

\* the chunks of the loaded index (metadata only)
IndexChunks ==
    { [company |-> "BMW", year |-> "2023"],
      [company |-> "BMW", year |-> "2022"],
      [company |-> "Tesla", year |-> "2023"] }

\* what the LLM may answer
LLMAnswers ==
    {"I Don't Have That Information.", "I don't have the data", "Revenue was 5 bn"}

\* the messages of the exceptions the chain may raise
ChainErrors == {"rate limit"}

\* the inputs on which _expand_financial_query is applied directly
ExpandInputs ==
    Questions \cup {"REVENUE", "Growth, profit, revenue", "profitability", "reven ue", ""}

\* the questions handed to analyze_query_intent
AnalysisQuestions ==
    {"Compare BMW and Tesla revenue in 2023",
     "tesla versus bmw GROWTH",
     "Ford 2024 overview",
     "Ford sales 2021",
     "Summary of trends 2019 2050",
     "EBIT summary 202024 2022 2022",
     "summary 2031 and 2049",
     "hello"}

\* the lines typed at the chat prompt
ShellInputs ==
    {"clear", " CLEAR ", "Clear\t", "exit", " Quit", "Q", "help", "EXAMPLES", "", "  ",
     "BMW Revenue", " clear history "}

\* user_input.strip() of the typed lines, computed once
StripTable == [s \in ShellInputs |-> strip(s)]

\* str.lower() of the texts of the model, computed once
LowerTable ==
    [s \in Questions \cup ExpandInputs \cup LLMAnswers \cup AnalysisQuestions
            \cup {StripTable[t] : t \in ShellInputs} |-> lower_chars(s)]

\* str.lower()
lower(s) == IF s \in DOMAIN LowerTable THEN LowerTable[s] ELSE lower_chars(s)

\* top-k of the retriever
DefaultK == 15

DefaultSearchKwargs == [k |-> DefaultK]

\* the metadata filter of a retriever setting (the empty dict when it has none)
FilterOf(kwargs) ==
    IF "filter" \in DOMAIN kwargs THEN kwargs.filter ELSE <<>>

\* Chroma's equality filter on metadata
Matches(chunk, filter) == \A key \in DOMAIN filter : chunk[key] = filter[key]

\* the chunk sequences the retriever may return under a setting
Retrievals(kwargs) ==
    {<<>>} \cup
    IF MaxSources >= 1
    THEN UNION { { s \in [1..n -> {c \in IndexChunks : Matches(c, FilterOf(kwargs))}] :
                     \A i, j \in 1..n : i # j => s[i] # s[j] } :
                 n \in 1..(IF MaxSources < kwargs.k THEN MaxSources ELSE kwargs.k) }
    ELSE {}

\* every outcome of one chain invocation: an exception, or an answer with its sources
ChainResponses(kwargs) ==
    { [raised |-> TRUE, error |-> e, answer |-> "", source_documents |-> <<>>] :
        e \in ChainErrors }
    \cup
    { [raised |-> FALSE, error |-> "", answer |-> a, source_documents |-> s] :
        a \in LLMAnswers, s \in Retrievals(kwargs) }

HumanMessage(content) == [role |-> "human", content |-> content]
AIMessage(content) == [role |-> "ai", content |-> content]

\* the chain's memory after one invocation: a completed invocation saves its
\* (question, answer) pair, an invocation that raised saves nothing
SaveContext(memory, question, response) ==
    IF response.raised THEN memory
    ELSE memory \o <<HumanMessage(question), AIMessage(response.answer)>>

\* the record of one chain invocation
Invocation(question, kwargs, memory, response) ==
    [question |-> question, search_kwargs |-> kwargs,
     chat_history |-> memory, response |-> response]

(***************************************************************************)
(* RAGEngine                                                               *)
(***************************************************************************)

\* top-k that query_with_filter sets together with its filter
FilterK == 15

\* the phrase whose presence marks an answer as carrying no information
NoInfoPhrase == "don't have that information"

\* the synonym table of _expand_financial_query, in the order the dict is iterated
expansions ==
    << <<"revenue", "revenue total sales net sales turnover">>,
       <<"profit", "profit net income earnings EBIT EBITDA net profit">>,
       <<"growth", "growth increase change trend performance">> >>

QueryResult(answer, source_documents, success) ==
    [answer |-> answer, source_documents |-> source_documents, success |-> success]

\* the result built from a completed chain invocation
SuccessResult(response) ==
    QueryResult(response.answer, response.source_documents, TRUE)

\* the result built by `except Exception as e`
ErrorResult(e) ==
    QueryResult("Error processing query: " \o e, <<>>, FALSE)

\* what a call hands back to the action: the value returned, the new memory and
\* retriever settings, the chain invocations made, and the exception that
\* escaped to the caller (None when the call returned)
Outcome(result, memory, kwargs, invocations, raised) ==
    [result |-> result, memory |-> memory, search_kwargs |-> kwargs,
     invocations |-> invocations, raised |-> raised]

\* FirstAttemptAccepted with `and` in the place of `or`
FirstAttemptAccepted_and(response) ==
    /\ ~Contains(NoInfoPhrase, lower(response.answer))
    /\ Len(response.source_documents) > 0

\* the test under which the first attempt is returned as it is
FirstAttemptAccepted(response) ==
    \/ ~Contains(NoInfoPhrase, lower(response.answer))
    \/ Len(response.source_documents) > 0

\* _expand_financial_query testing the question as typed, not lower-cased
_expand_financial_query_as_typed(question) ==
    LET hits == {i \in 1..Len(expansions) : Contains(expansions[i][1], question)}
    IN  IF hits = {} THEN question
        ELSE LET first == CHOOSE i \in hits : \A j \in hits : i <= j
             IN  question \o " (including " \o expansions[first][2] \o ")"

_expand_financial_query(question) ==
    LET hits == {i \in 1..Len(expansions) : Contains(expansions[i][1], lower(question))}
    IN  IF hits = {} THEN question
        ELSE LET first == CHOOSE i \in hits : \A j \in hits : i <= j
             IN  question \o " (including " \o expansions[first][2] \o ")"

\* _multi_strategy_query returning the first attempt's result after the retry
_multi_strategy_query_keeps_first(question, r1, r2, memory, kwargs) ==
    LET inv1 == Invocation(question, kwargs, memory, r1)
        mem1 == SaveContext(memory, question, r1)
        expanded_question == _expand_financial_query(question)
        inv2 == Invocation(expanded_question, kwargs, mem1, r2)
        mem2 == SaveContext(mem1, expanded_question, r2)
    IN  IF r1.raised
        THEN Outcome(ErrorResult(r1.error), mem1, kwargs, <<inv1>>, None)
        ELSE IF FirstAttemptAccepted(r1)
        THEN Outcome(SuccessResult(r1), mem1, kwargs, <<inv1>>, None)
        ELSE IF expanded_question # question
        THEN IF r2.raised
             THEN Outcome(ErrorResult(r2.error), mem2, kwargs, <<inv1, inv2>>, None)
             ELSE Outcome(SuccessResult(r1), mem2, kwargs, <<inv1, inv2>>, None)
        ELSE Outcome(SuccessResult(r1), mem1, kwargs, <<inv1>>, None)

\* _multi_strategy_query retrying after every weak first attempt, expanded or not
_multi_strategy_query_always_retries(question, r1, r2, memory, kwargs) ==
    LET inv1 == Invocation(question, kwargs, memory, r1)
        mem1 == SaveContext(memory, question, r1)
        expanded_question == _expand_financial_query(question)
        inv2 == Invocation(expanded_question, kwargs, mem1, r2)
        mem2 == SaveContext(mem1, expanded_question, r2)
    IN  IF r1.raised
        THEN Outcome(ErrorResult(r1.error), mem1, kwargs, <<inv1>>, None)
        ELSE IF FirstAttemptAccepted(r1)
        THEN Outcome(SuccessResult(r1), mem1, kwargs, <<inv1>>, None)
        ELSE IF r2.raised
        THEN Outcome(ErrorResult(r2.error), mem2, kwargs, <<inv1, inv2>>, None)
        ELSE Outcome(SuccessResult(r2), mem2, kwargs, <<inv1, inv2>>, None)

\* _multi_strategy_query with the retry made outside the try block
_multi_strategy_query_unguarded_retry(question, r1, r2, memory, kwargs) ==
    LET inv1 == Invocation(question, kwargs, memory, r1)
        mem1 == SaveContext(memory, question, r1)
        expanded_question == _expand_financial_query(question)
        inv2 == Invocation(expanded_question, kwargs, mem1, r2)
        mem2 == SaveContext(mem1, expanded_question, r2)
    IN  IF r1.raised
        THEN Outcome(ErrorResult(r1.error), mem1, kwargs, <<inv1>>, None)
        ELSE IF FirstAttemptAccepted(r1)
        THEN Outcome(SuccessResult(r1), mem1, kwargs, <<inv1>>, None)
        ELSE IF expanded_question # question
        THEN IF r2.raised
             THEN Outcome(QueryResult("", <<>>, FALSE), mem2, kwargs, <<inv1, inv2>>, r2.error)
             ELSE Outcome(SuccessResult(r2), mem2, kwargs, <<inv1, inv2>>, None)
        ELSE Outcome(SuccessResult(r1), mem1, kwargs, <<inv1>>, None)

_multi_strategy_query(question, r1, r2, memory, kwargs) ==
    LET inv1 == Invocation(question, kwargs, memory, r1)
        mem1 == SaveContext(memory, question, r1)
        expanded_question == _expand_financial_query(question)
        inv2 == Invocation(expanded_question, kwargs, mem1, r2)
        mem2 == SaveContext(mem1, expanded_question, r2)
    IN  IF r1.raised
        THEN Outcome(ErrorResult(r1.error), mem1, kwargs, <<inv1>>, None)
        ELSE IF FirstAttemptAccepted(r1)
        THEN Outcome(SuccessResult(r1), mem1, kwargs, <<inv1>>, None)
        ELSE IF expanded_question # question
        THEN IF r2.raised
             THEN Outcome(ErrorResult(r2.error), mem2, kwargs, <<inv1, inv2>>, None)
             ELSE Outcome(SuccessResult(r2), mem2, kwargs, <<inv1, inv2>>, None)
        ELSE Outcome(SuccessResult(r1), mem1, kwargs, <<inv1>>, None)

query(question, r1, r2, memory, kwargs) ==
    _multi_strategy_query(question, r1, r2, memory, kwargs)

\* the filter_dict of query_with_filter
FilterDict(company, year) ==
    LET keys == (IF Truthy(company) THEN {"company"} ELSE {})
                \cup (IF Truthy(year) THEN {"year"} ELSE {})
    IN  [key \in keys |-> IF key = "company" THEN company ELSE year]

\* the retriever settings during the chain invocation of query_with_filter
FilteredSearchKwargs(company, year, kwargs) ==
    IF DOMAIN FilterDict(company, year) # {}
    THEN [k |-> FilterK, filter |-> FilterDict(company, year)]
    ELSE kwargs

\* the finally block restoring only when a company was given
RestoredSearchKwargs_company_only(company, year, original_search_kwargs, current) ==
    IF Truthy(company)
    THEN original_search_kwargs
    ELSE current

\* the retriever settings the finally block leaves
RestoredSearchKwargs(company, year, original_search_kwargs, current) ==
    IF DOMAIN FilterDict(company, year) # {}
    THEN original_search_kwargs
    ELSE current

query_with_filter(question, company, year, r1, memory, kwargs) ==
    LET during == FilteredSearchKwargs(company, year, kwargs)
        after == RestoredSearchKwargs(company, year, kwargs, during)
        inv1 == Invocation(question, during, memory, r1)
        mem1 == SaveContext(memory, question, r1)
    IN  IF r1.raised
        THEN Outcome(ErrorResult(r1.error), mem1, after, <<inv1>>, None)
        ELSE Outcome(SuccessResult(r1), mem1, after, <<inv1>>, None)

\* the record kept of a RAGEngine call
Call(op, question, company, year, out) ==
    [op |-> op, question |-> question, company |-> company, year |-> year,
     histBefore |-> messages, kwargsBefore |-> search_kwargs,
     invocations |-> out.invocations, result |-> out.result, raised |-> out.raised]

\* the response drawn for a chain invocation that is never made
NotInvoked == CHOOSE r \in ChainResponses(DefaultSearchKwargs) : r.raised

NoOutcome == Outcome(QueryResult("", <<>>, FALSE), <<>>, DefaultSearchKwargs, <<>>, None)

Query ==
    /\ rag # None
    /\ Len(messages) <= MaxHistory
    /\ \E question \in Questions :
       \E r1 \in ChainResponses(search_kwargs), r2 \in ChainResponses(search_kwargs) :
          LET out == query(question, r1, r2, messages, search_kwargs)
          IN  /\ Len(out.invocations) < 2 => r2 = NotInvoked
              /\ messages' = out.memory
              /\ search_kwargs' = out.search_kwargs
              /\ lastCall' = Call("query", question, None, None, out)
    /\ UNCHANGED <<storeVars, shellVars, docVars, scriptVars>>

QueryWithFilter ==
    /\ Len(messages) <= MaxHistory
    /\ \E question \in Questions, company \in Companies, year \in Years :
       \E r1 \in ChainResponses(FilteredSearchKwargs(company, year, search_kwargs)) :
          LET out == query_with_filter(question, company, year, r1, messages, search_kwargs)
          IN  /\ messages' = out.memory
              /\ search_kwargs' = out.search_kwargs
              /\ lastCall' = Call("query_with_filter", question, company, year, out)
    /\ UNCHANGED <<storeVars, shellVars, docVars, scriptVars>>

clear_history ==
    /\ messages' = <<>>
    /\ lastCall' = Call("clear_history", "", None, None, NoOutcome)
    /\ UNCHANGED <<search_kwargs, storeVars, shellVars, docVars, scriptVars>>

\* _expand_financial_query applied to a question; the rewritten question is
\* recorded as the call's answer
ExpandFinancialQuery ==
    /\ \E question \in ExpandInputs :
          lastCall' = Call("_expand_financial_query", question, None, None,
                           Outcome(QueryResult(_expand_financial_query(question), <<>>, TRUE),
                                   messages, search_kwargs, <<>>, None))
    /\ UNCHANGED <<messages, search_kwargs, storeVars, shellVars, docVars, scriptVars>>

\* the engine right after RAGEngine.__init__ over a loaded store
InitEngine ==
    /\ messages = <<>>
    /\ search_kwargs = DefaultSearchKwargs
    /\ lastCall = [op |-> "__init__", question |-> "", company |-> None, year |-> None,
                   histBefore |-> <<>>, kwargsBefore |-> DefaultSearchKwargs,
                   invocations |-> <<>>, result |-> QueryResult("", <<>>, FALSE),
                   raised |-> None]

\* the adapter after a load_vectorstore that returned
InitLoadedStore ==
    /\ vectorstore = "Chroma"
    /\ dirExists = TRUE
    /\ dbExists = TRUE
    /\ collection = <<1>>
    /\ initialized = TRUE
    /\ persistTried = TRUE
    /\ vsCall = [op |-> "load_vectorstore"]

\* no chat shell is running and no input was processed
InitShell ==
    /\ running = FALSE
    /\ chatCall = [op |-> "__init__"]

\* no DocumentProcessor call was made
InitDocs == docCall = [op |-> "__init__"]

\* the object RAGEngine(vs_manager) returns
RAGEngine == "RAGEngine"

\* the error RAGEngine.__init__ raises over an adapter without a handle
StoreNotLoaded == "Vector store must be loaded before initializing RAG engine"

\* setup.py was not run
InitSetup == setupCall = [op |-> "__init__"]

\* main.py after `rag = RAGEngine(vs_manager)` over the loaded store
InitQuery ==
    InitEngine /\ InitLoadedStore /\ InitShell /\ InitDocs /\ rag = RAGEngine /\ InitSetup

NextQuery ==
    \/ Query
    \/ QueryWithFilter
    \/ clear_history
    \/ ExpandFinancialQuery

SpecQuery == InitQuery /\ [][NextQuery]_vars

(***************************************************************************)
(* RAGEngine: source formatting and intent analysis                        *)
(***************************************************************************)

\* the longest chunk list handed to format_sources
MaxFormatted == 4

Digits == "0123456789"

IsDigit(c) == \E i \in 1..Len(Digits) : SubSeq(Digits, i, i) = c

RECURSIVE str(_)
\* str() of a natural number
str(n) ==
    IF n < 10 THEN SubSeq(Digits, n + 1, n + 1)
    ELSE str(n \div 10) \o SubSeq(Digits, (n % 10) + 1, (n % 10) + 1)

RECURSIVE Repeat(_, _)
\* Python's `s * n`
Repeat(s, n) == IF n = 0 THEN "" ELSE s \o Repeat(s, n - 1)

\* the chunks a chain response can carry: the loader writes company, year and
\* source_file into every chunk's metadata
SourceChunks ==
    {[company |-> "BMW", year |-> "2023", source_file |-> "BMW_2023.pdf"],
     [company |-> "Ford", year |-> "2022", source_file |-> "Ford_2022.pdf"],
     [company |-> "BMW", year |-> "2022", source_file |-> "BMW_Report_2022.pdf"]}

RECURSIVE SeqsUpTo(_, _)
\* the sequences over S of length at most n
SeqsUpTo(S, n) ==
    IF n = 0 THEN {<<>>}
    ELSE LET shorter == SeqsUpTo(S, n - 1)
         IN  shorter \cup {Append(q, x) : q \in {r \in shorter : Len(r) = n - 1}, x \in S}

SourceLists == SeqsUpTo(SourceChunks, MaxFormatted)

\* metadata.get(key, "Unknown")
MetadataGet(metadata, key) ==
    IF key \in DOMAIN metadata THEN metadata[key] ELSE "Unknown"

\* the dictionary key with the year left out
SourceKey_company_only(company, year) == company

\* the dictionary key format_sources groups under
SourceKey(company, year) == company \o " - " \o year

RECURSIVE sources_by_company(_, _)
\* the sources_by_company dictionary after the loop over the chunks, as the
\* sequence of its entries in insertion order
sources_by_company(source_documents, entries) ==
    IF source_documents = <<>> THEN entries
    ELSE LET metadata == Head(source_documents)
             company == MetadataGet(metadata, "company")
             year == MetadataGet(metadata, "year")
             source == MetadataGet(metadata, "source_file")
             key == SourceKey(company, year)
             seen == {i \in 1..Len(entries) : entries[i].key = key}
         IN  IF seen = {}
             THEN sources_by_company(Tail(source_documents),
                                 Append(entries, [key |-> key, company |-> company,
                                                  year |-> year, source |-> source,
                                                  count |-> 1]))
             ELSE LET i == CHOOSE j \in seen : TRUE
                  IN  sources_by_company(Tail(source_documents),
                                     [entries EXCEPT ![i].count = @ + 1])

NoSources == "No sources available"

SourcesHeader == "\n\nSources:\n" \o Repeat("=", 60) \o "\n"

\* the three lines written for the i-th entry
SourceLines(i, company, year, source, count) ==
    str(i) \o ". " \o company \o " Annual Report " \o year \o "\n"
    \o "   File: " \o source \o "\n"
    \o "   Chunks referenced: " \o str(count) \o "\n"

RECURSIVE JoinLines(_, _)
JoinLines(entries, i) ==
    IF i > Len(entries) THEN ""
    ELSE SourceLines(i, entries[i].company, entries[i].year, entries[i].source,
                     entries[i].count)
         \o JoinLines(entries, i + 1)

format_sources(source_documents) ==
    IF source_documents = <<>> THEN NoSources
    ELSE SourcesHeader \o JoinLines(sources_by_company(source_documents, <<>>), 1)

\* str.upper() on one character
UpperChar(c) ==
    IF \E i \in 1..Len(LowerLetters) : SubSeq(LowerLetters, i, i) = c
    THEN LET i == CHOOSE j \in 1..Len(LowerLetters) : SubSeq(LowerLetters, j, j) = c
         IN  SubSeq(UpperLetters, i, i)
    ELSE c

RECURSIVE upper(_)
\* str.upper(), character by character
upper(s) ==
    IF Len(s) = 0 THEN ""
    ELSE UpperChar(SubSeq(s, 1, 1)) \o upper(SubSeq(s, 2, Len(s)))

\* the company list of analyze_query_intent, in its order
companies == <<"bmw", "tesla", "ford">>

\* the detected companies reported as they are spelled in the list
detected_companies_lower(question_lower) ==
    SelectSeq(companies, LAMBDA company : Contains(company, question_lower))

\* the companies found in the lowercased question, upper-cased, in list order
detected_companies(question_lower) ==
    LET found == SelectSeq(companies, LAMBDA company : Contains(company, question_lower))
    IN  [i \in 1..Len(found) |-> upper(found[i])]

\* a match of 20\d\d at position i
YearMatchAt_any_decade(s, i) ==
    /\ SubSeq(s, i, i + 1) = "20"
    /\ IsDigit(SubSeq(s, i + 2, i + 2))
    /\ IsDigit(SubSeq(s, i + 3, i + 3))

\* a match of the pattern 20[2-4][0-9] at position i of s
YearMatchAt(s, i) ==
    /\ SubSeq(s, i, i + 1) = "20"
    /\ SubSeq(s, i + 2, i + 2) \in {"2", "3", "4"}
    /\ IsDigit(SubSeq(s, i + 3, i + 3))

RECURSIVE findall_from(_, _)
\* re.findall from position i: the matches left to right, the scan resuming
\* after the end of each match
findall_from(s, i) ==
    IF i + 3 > Len(s) THEN <<>>
    ELSE IF YearMatchAt(s, i)
         THEN <<SubSeq(s, i, i + 3)>> \o findall_from(s, i + 4)
         ELSE findall_from(s, i + 1)

\* re.findall(r'20[2-4][0-9]', question)
findall_years(question) == findall_from(question, 1)

ToSet(seq) == {seq[i] : i \in 1..Len(seq)}

\* list(set(...)): the elements of S once each, in an order the hash seed decides
ListsOf(S) ==
    {l \in [1..Cardinality(S) -> S] : \A x \in S : \E i \in 1..Cardinality(S) : l[i] = x}

\* the metrics dictionary, in insertion order
metrics ==
    <<[name |-> "revenue", keywords |-> <<"revenue", "sales", "turnover">>],
      [name |-> "profit", keywords |-> <<"profit", "earnings", "net income", "ebitda", "ebit">>],
      [name |-> "growth", keywords |-> <<"growth", "increase", "trend">>],
      [name |-> "performance", keywords |-> <<"performance", "results">>]>>

detected_metrics(question_lower) ==
    LET hit == SelectSeq(metrics,
                         LAMBDA m : \E k \in 1..Len(m.keywords) :
                                       Contains(m.keywords[k], question_lower))
    IN  [i \in 1..Len(hit) |-> hit[i].name]

\* the classification with the trend keywords tested before the comparison ones
query_type_trend_first(question_lower, found_companies, years) ==
    IF Contains("trend", question_lower) \/ Contains("over", question_lower)
       \/ Contains("growth", question_lower)
    THEN "trend"
    ELSE IF Contains("compare", question_lower) \/ Contains("between", question_lower)
            \/ Contains("versus", question_lower)
    THEN "comparison"
    ELSE IF Contains("summary", question_lower) \/ Contains("overview", question_lower)
    THEN "summary"
    ELSE IF Len(found_companies) = 1 /\ Len(years) = 1
    THEN "specific"
    ELSE "general"

\* the if/elif chain that classifies the question
query_type(question_lower, found_companies, years) ==
    IF Contains("compare", question_lower) \/ Contains("between", question_lower)
       \/ Contains("versus", question_lower)
    THEN "comparison"
    ELSE IF Contains("trend", question_lower) \/ Contains("over", question_lower)
            \/ Contains("growth", question_lower)
    THEN "trend"
    ELSE IF Contains("summary", question_lower) \/ Contains("overview", question_lower)
    THEN "summary"
    ELSE IF Len(found_companies) = 1 /\ Len(years) = 1
    THEN "specific"
    ELSE "general"

\* analyze_query_intent; years is the list made of the set of the matches
analyze_query_intent(question, years) ==
    LET question_lower == lower(question)
        found_companies == detected_companies(question_lower)
    IN  [companies |-> found_companies,
         years |-> years,
         metrics |-> detected_metrics(question_lower),
         query_type |-> query_type(question_lower, found_companies, years)]

\* the analyses of the model's questions, one per order of the years, computed once
Analyses ==
    [question \in AnalysisQuestions |->
        [years \in ListsOf(ToSet(findall_years(question))) |->
            analyze_query_intent(question, years)]]

\* format_sources(source_documents) computed once per chunk list
FormattedSources == [source_documents \in SourceLists |-> format_sources(source_documents)]

\* the record kept of a call that reads its argument only
PureCall(op, question, source_documents, result) ==
    [op |-> op, question |-> question, source_documents |-> source_documents,
     histBefore |-> messages, kwargsBefore |-> search_kwargs,
     invocations |-> <<>>, result |-> result, raised |-> None]

\* an analysis that also writes the question into the conversation memory
AnalyzeQueryIntent_remembers ==
    /\ Len(messages) <= MaxHistory
    /\ \E question \in AnalysisQuestions :
       \E years \in DOMAIN Analyses[question] :
          /\ lastCall' = PureCall("analyze_query_intent", question, <<>>,
                                  Analyses[question][years])
          /\ messages' = Append(messages, HumanMessage(question))
    /\ UNCHANGED <<search_kwargs, storeVars, shellVars, docVars, scriptVars>>

AnalyzeQueryIntent ==
    /\ \E question \in AnalysisQuestions :
       \E years \in DOMAIN Analyses[question] :
          lastCall' = PureCall("analyze_query_intent", question, <<>>,
                               Analyses[question][years])
    /\ UNCHANGED <<messages, search_kwargs, storeVars, shellVars, docVars, scriptVars>>

FormatSources ==
    /\ \E source_documents \in SourceLists :
          lastCall' = PureCall("format_sources", "", source_documents,
                               FormattedSources[source_documents])
    /\ UNCHANGED <<messages, search_kwargs, storeVars, shellVars, docVars, scriptVars>>

\* query_with_filter on one question without a filter: a conversation turn, so
\* that the pure calls are also made on a non-empty history
AnswerTurn ==
    /\ Len(messages) < MaxHistory
    /\ \E r1 \in ChainResponses(FilteredSearchKwargs(None, None, search_kwargs)) :
          LET out == query_with_filter("BMW Revenue", None, None, r1, messages, search_kwargs)
          IN  /\ messages' = out.memory
              /\ search_kwargs' = out.search_kwargs
              /\ lastCall' = Call("query_with_filter", "BMW Revenue", None, None, out)
    /\ UNCHANGED <<storeVars, shellVars, docVars, scriptVars>>

NextAnalysis ==
    \/ AnalyzeQueryIntent
    \/ FormatSources
    \/ AnswerTurn
    \/ clear_history

SpecAnalysis == InitQuery /\ [][NextAnalysis]_vars

(***************************************************************************)
(* ChatInterface and the conversation history                              *)
(***************************************************************************)

\* get_conversation_history: one {role, content} dictionary per stored message
get_conversation_history(memory) ==
    [i \in 1..Len(memory) |-> [role |-> memory[i].role, content |-> memory[i].content]]

\* what process_query does: the value it returns and the calls it makes on the
\* engine, with the outcome of the query when it makes one
Processed(should_continue, engineCalls, out) ==
    [should_continue |-> should_continue, engineCalls |-> engineCalls, out |-> out]

\* process_query ending the chat after a query that failed
process_query_stops_on_failure(user_input, r1, r2, memory, kwargs) ==
    LET stripped == StripTable[user_input]
        unchanged == Outcome(QueryResult("", <<>>, FALSE), memory, kwargs, <<>>, None)
    IN  IF lower(stripped) \in {"exit", "quit", "q"}
        THEN Processed(FALSE, <<>>, unchanged)
        ELSE IF lower(stripped) = "clear"
        THEN Processed(TRUE, <<"clear_history">>,
                       Outcome(QueryResult("", <<>>, FALSE), <<>>, kwargs, <<>>, None))
        ELSE IF lower(stripped) \in {"examples", "help"} \/ stripped = ""
        THEN Processed(TRUE, <<>>, unchanged)
        ELSE LET out == query(stripped, r1, r2, memory, kwargs)
             IN  Processed(out.result.success, <<"query">>, out)

\* process_query(user_input); r1 and r2 are the chain's responses to the
\* invocations of the query, memory and kwargs the engine's state
process_query(user_input, r1, r2, memory, kwargs) ==
    LET stripped == StripTable[user_input]
        unchanged == Outcome(QueryResult("", <<>>, FALSE), memory, kwargs, <<>>, None)
    IN  IF lower(stripped) \in {"exit", "quit", "q"}
        THEN Processed(FALSE, <<>>, unchanged)
        ELSE IF lower(stripped) = "clear"
        THEN Processed(TRUE, <<"clear_history">>,
                       Outcome(QueryResult("", <<>>, FALSE), <<>>, kwargs, <<>>, None))
        ELSE IF lower(stripped) = "examples"
        THEN Processed(TRUE, <<>>, unchanged)
        ELSE IF lower(stripped) = "help"
        THEN Processed(TRUE, <<>>, unchanged)
        ELSE IF stripped = ""
        THEN Processed(TRUE, <<>>, unchanged)
        ELSE Processed(TRUE, <<"query">>, query(stripped, r1, r2, memory, kwargs))

\* the record kept of a line handled by the chat loop
ChatCall(user_input, done) ==
    [op |-> "process_query", user_input |-> user_input,
     should_continue |-> done.should_continue, engineCalls |-> done.engineCalls]

\* the chain responses a line can meet: a first one if the line is a question
\* and a second one if the first leads the engine to a second invocation
ShellResponses(user_input, kwargs) ==
    IF process_query(user_input, NotInvoked, NotInvoked, <<>>, kwargs).engineCalls
          # <<"query">>
    THEN {<<NotInvoked, NotInvoked>>}
    ELSE UNION {IF Len(process_query(user_input, r1, NotInvoked, <<>>,
                                     kwargs).out.invocations) < 2
                THEN {<<r1, NotInvoked>>}
                ELSE {<<r1, r2>> : r2 \in ChainResponses(kwargs)} :
                r1 \in ChainResponses(kwargs)}

\* ChatInterface.run up to its loop
Run ==
    /\ ~running
    /\ chatCall.op = "__init__"
    /\ running' = TRUE
    /\ chatCall' = [op |-> "run"]
    /\ UNCHANGED <<engineVars, storeVars, docVars, scriptVars>>

\* one iteration of the loop of run: a line is read and processed, and the
\* loop ends when process_query returns False
ProcessQuery ==
    /\ running
    /\ Len(messages) <= MaxHistory
    /\ \E user_input \in ShellInputs :
       \E rs \in ShellResponses(user_input, search_kwargs) :
          LET done == process_query(user_input, rs[1], rs[2], messages, search_kwargs)
          IN  /\ messages' = done.out.memory
              /\ search_kwargs' = done.out.search_kwargs
              /\ lastCall' =
                    IF done.engineCalls = <<"query">>
                    THEN Call("query", StripTable[user_input], None, None, done.out)
                    ELSE IF done.engineCalls = <<"clear_history">>
                    THEN Call("clear_history", "", None, None, NoOutcome)
                    ELSE lastCall
              /\ chatCall' = ChatCall(user_input, done)
              /\ running' = done.should_continue
    /\ UNCHANGED <<storeVars, docVars, scriptVars>>

\* the exceptions input() raises: Ctrl-C, and the end of the input stream
InputErrors == {"KeyboardInterrupt", "EOFError"}

\* an iteration of the loop in which input() raises: the handlers of run print
\* a notice and the loop goes on
InputInterrupted ==
    /\ running
    /\ \E e \in InputErrors : chatCall' = [op |-> "input", raised |-> e]
    /\ UNCHANGED <<running, engineVars, storeVars, docVars, scriptVars>>

\* an iteration of the loop in which Ctrl-C arrives while the engine answers
\* a question: query does not catch it, the handler of run does; the memory
\* holds the turns of the invocations that had completed
QueryInterrupted ==
    /\ running
    /\ Len(messages) <= MaxHistory
    /\ \E user_input \in ShellInputs :
       \E rs \in ShellResponses(user_input, search_kwargs) :
          LET r1 == rs[1]
              done == process_query(user_input, r1, rs[2], messages, search_kwargs)
              stripped == StripTable[user_input]
          IN  /\ done.engineCalls = <<"query">>
              /\ \E completed \in 0..Len(done.out.invocations) :
                    LET memory == IF completed = 0 THEN messages
                                  ELSE IF completed = 1
                                  THEN SaveContext(messages, stripped, r1)
                                  ELSE done.out.memory
                    IN  /\ messages' = memory
                        /\ lastCall' = Call("query interrupted", stripped, None, None,
                                            Outcome(QueryResult("", <<>>, FALSE), memory,
                                                    search_kwargs,
                                                    SubSeq(done.out.invocations, 1, completed),
                                                    "KeyboardInterrupt"))
              /\ chatCall' = [op |-> "process_query interrupted", user_input |-> user_input,
                              raised |-> "KeyboardInterrupt"]
    /\ UNCHANGED <<running, search_kwargs, storeVars, docVars, scriptVars>>

NextChat ==
    \/ Run
    \/ ProcessQuery
    \/ InputInterrupted
    \/ QueryInterrupted

SpecChat == InitQuery /\ [][NextChat]_vars

(***************************************************************************)
(* DocumentProcessor: loading the reports                                  *)
(***************************************************************************)

\* the most pages a report has, and the most files a company directory holds
MaxPages == 2
MaxFiles == 2

\* the outcome of an extraction that throws, where a page count is expected
Raises == -1

\* the files met in the company directories: what pdfplumber and PyPDFLoader
\* make of each one (a page count, or Raises)
ReportFiles ==
    {[name |-> "BMW_2023.pdf", plumber |-> MaxPages, pypdf |-> MaxPages],
     [name |-> "scan_2021.pdf", plumber |-> Raises, pypdf |-> 1],
     [name |-> "blank.pdf", plumber |-> 0, pypdf |-> MaxPages],
     [name |-> "void2019.pdf", plumber |-> 0, pypdf |-> Raises],
     [name |-> "broken.pdf", plumber |-> Raises, pypdf |-> Raises],
     [name |-> "notes.txt", plumber |-> Raises, pypdf |-> Raises]}

\* a company directory: it exists or not, and lists its files in glob order
Directory(exists, files) == [exists |-> exists, files |-> files]

MissingDirectory == Directory(FALSE, <<>>)

\* the directories of at most MaxFiles files, no file name twice
Directories ==
    {MissingDirectory}
    \cup {Directory(TRUE, files) :
            files \in {l \in SeqsUpTo(ReportFiles, MaxFiles) :
                          \A i, j \in 1..Len(l) : i # j => l[i].name # l[j].name}}

\* the match of *.pdf against a file name
IsPdf(name) == Len(name) >= 4 /\ SubSeq(name, Len(name) - 3, Len(name)) = ".pdf"

\* list(company_dir.glob("*.pdf"))
glob_pdf(directory) == SelectSeq(directory.files, LAMBDA file : IsPdf(file.name))

\* the file names handed to _extract_year_from_filename
FileNames ==
    {f.name : f \in ReportFiles}
    \cup {"BMW_Report_2022_final.pdf", "report.pdf", "2021_vs_2023.pdf", "r20a2024.pdf",
          "120345.pdf", "Ford_1999.pdf", "20.pdf"}

\* a match of 20\d{2} at position i of the file name
FilenameYearAt(filename, i) ==
    /\ i + 3 <= Len(filename)
    /\ SubSeq(filename, i, i + 1) = "20"
    /\ IsDigit(SubSeq(filename, i + 2, i + 2))
    /\ IsDigit(SubSeq(filename, i + 3, i + 3))

\* the year taken from the last match
_extract_year_from_filename_last(filename) ==
    LET starts == {i \in 1..Len(filename) : FilenameYearAt(filename, i)}
    IN  IF starts = {} THEN "Unknown"
        ELSE LET last == CHOOSE i \in starts : \A j \in starts : i >= j
             IN  SubSeq(filename, last, last + 3)

\* _extract_year_from_filename: the first match, or "Unknown"
_extract_year_from_filename(filename) ==
    LET starts == {i \in 1..Len(filename) : FilenameYearAt(filename, i)}
    IN  IF starts = {} THEN "Unknown"
        ELSE LET first == CHOOSE i \in starts : \A j \in starts : i <= j
             IN  SubSeq(filename, first, first + 3)

\* the year of each file name of the model, computed once
YearOfFile == [name \in FileNames |-> _extract_year_from_filename(name)]

\* the texts found on the pages of the reports: text with paragraphs and
\* sentences, a page without text, text without any separator
PageTexts == <<"Q1 up. net 5\n\nok then", "", "abcdefghij", "a b\nc d">>

\* the texts of the pages of a file, repeated when the file has more pages
PageTextsOf(name) ==
    IF name = "BMW_2023.pdf" THEN <<PageTexts[1], PageTexts[2]>>
    ELSE IF name = "blank.pdf" THEN <<PageTexts[4], PageTexts[3]>>
    ELSE <<PageTexts[3]>>

\* the text of page i (from 1) of a file
PageText(name, i) == PageTextsOf(name)[((i - 1) % Len(PageTextsOf(name))) + 1]

\* what extract_text_with_pdfplumber returns: None, or the list of its pages
PagesData(is_none, pages) == [is_none |-> is_none, pages |-> pages]

\* the truth value of pages_data: None and the empty list are falsy
PagesTruthy(pages_data) == ~pages_data.is_none /\ pages_data.pages # <<>>

\* extract_text_with_pdfplumber: one entry per page, numbered from 1, or None
\* when pdfplumber throws
extract_text_with_pdfplumber(file) ==
    IF file.plumber = Raises THEN PagesData(TRUE, <<>>)
    ELSE PagesData(FALSE, [i \in 1..file.plumber |->
                              [page_content |-> PageText(file.name, i),
                               page_number |-> i]])

\* what loading one file gives: its documents, what pdfplumber returned,
\* whether PyPDFLoader was tried and whether the file was given up
FileLoad(documents, primary, fallback, skipped) ==
    [documents |-> documents, primary |-> primary, fallback |-> fallback,
     skipped |-> skipped]

\* the body of the loop of load_pdfs_from_directory for one file
load_file(company, file) ==
    LET pages_data == extract_text_with_pdfplumber(file)
        primary == IF pages_data.is_none THEN "None"
                   ELSE IF pages_data.pages = <<>> THEN "empty" ELSE "pages"
    IN  IF PagesTruthy(pages_data)
        THEN FileLoad([i \in 1..Len(pages_data.pages) |->
                         [page_content |-> pages_data.pages[i].page_content,
                          metadata |-> [company |-> company,
                                        source_file |-> file.name,
                                        year |-> YearOfFile[file.name],
                                        page |-> pages_data.pages[i].page_number]]],
                      primary, FALSE, FALSE)
        ELSE IF file.pypdf = Raises
        THEN FileLoad(<<>>, primary, TRUE, TRUE)
        ELSE FileLoad([i \in 1..file.pypdf |->
                         [page_content |-> PageText(file.name, i),
                          metadata |-> [source |-> file.name,
                                        page |-> i - 1,
                                        company |-> company,
                                        source_file |-> file.name,
                                        year |-> YearOfFile[file.name]]]],
                      primary, TRUE, FALSE)

\* what a loading call gives: the documents returned, whether it raised, the
\* per-file record of the loop and the warnings printed
Loaded(documents, raised, files, warnings) ==
    [documents |-> documents, raised |-> raised, files |-> files,
     warnings |-> warnings]

RECURSIVE load_files_until_error(_, _, _, _)
\* the loop ended by the first file that cannot be read
load_files_until_error(company, pdf_files, documents, files) ==
    IF pdf_files = <<>> THEN Loaded(documents, FALSE, files, <<>>)
    ELSE LET one == load_file(company, Head(pdf_files))
         IN  IF one.skipped
             THEN Loaded(documents, FALSE, Append(files, one), <<>>)
             ELSE load_files_until_error(company, Tail(pdf_files),
                                         documents \o one.documents, Append(files, one))

RECURSIVE load_files(_, _, _, _)
\* the loop over pdf_files: a file that cannot be read is reported and the
\* loop goes on
load_files(company, pdf_files, documents, files) ==
    IF pdf_files = <<>> THEN Loaded(documents, FALSE, files, <<>>)
    ELSE LET one == load_file(company, Head(pdf_files))
         IN  load_files(company, Tail(pdf_files),
                        documents \o one.documents, Append(files, one))

load_pdfs_from_directory(company, directory) ==
    IF ~directory.exists
    THEN Loaded(<<>>, FALSE, <<>>, <<"does not exist">>)
    ELSE IF glob_pdf(directory) = <<>>
    THEN Loaded(<<>>, FALSE, <<>>, <<"No PDF files found">>)
    ELSE load_files(company, glob_pdf(directory), <<>>, <<>>)

\* the companies of load_all_documents, in its order
report_companies == <<"BMW", "Tesla", "Ford">>

\* the directories given to load_all_documents
CompanyDirectories ==
    {d \in Directories :
        \/ ~d.exists
        \/ Len(d.files) = 1 /\ d.files[1].name \in {"notes.txt", "BMW_2023.pdf"}
        \/ Len(d.files) = 2 /\ d.files[1].name = "broken.pdf"
           /\ d.files[2].name = "scan_2021.pdf"}

RECURSIVE load_companies(_, _, _)
load_companies(data_dir, i, all_documents) ==
    IF i > Len(report_companies) THEN all_documents
    ELSE LET docs == load_pdfs_from_directory(report_companies[i],
                                              data_dir[report_companies[i]])
         IN  load_companies(data_dir, i + 1, all_documents \o docs.documents)

\* load_all_documents giving up when a company has nothing to load
load_all_documents_strict(data_dir) ==
    IF \E i \in 1..Len(report_companies) :
          load_pdfs_from_directory(report_companies[i],
                                   data_dir[report_companies[i]]).documents = <<>>
    THEN Loaded(<<>>, TRUE, <<>>, <<>>)
    ELSE Loaded(load_companies(data_dir, 1, <<>>), FALSE, <<>>, <<>>)

\* load_all_documents over the data directory, one subdirectory per company
load_all_documents(data_dir) ==
    Loaded(load_companies(data_dir, 1, <<>>), FALSE, <<>>, <<>>)

ExtractYearFromFilename ==
    /\ \E filename \in FileNames :
          docCall' = [op |-> "_extract_year_from_filename", filename |-> filename,
                      year |-> YearOfFile[filename]]
    /\ UNCHANGED <<engineVars, storeVars, shellVars, scriptVars>>

\* the data directories given to load_all_documents: one directory per company
DataDirectories ==
    [{report_companies[i] : i \in 1..Len(report_companies)} -> CompanyDirectories]

\* the calls of the loader on the inputs of the model, computed once
PdfLoads ==
    [company \in {report_companies[i] : i \in 1..Len(report_companies)} |->
        [directory \in Directories |-> load_pdfs_from_directory(company, directory)]]

AllLoads == [data_dir \in DataDirectories |-> load_all_documents(data_dir)]

LoadPdfsFromDirectory ==
    /\ \E company \in DOMAIN PdfLoads, directory \in Directories :
          docCall' = [op |-> "load_pdfs_from_directory", company |-> company,
                      directory |-> directory,
                      loaded |-> PdfLoads[company][directory]]
    /\ UNCHANGED <<engineVars, storeVars, shellVars, scriptVars>>

LoadAllDocuments ==
    /\ \E data_dir \in DataDirectories :
          docCall' = [op |-> "load_all_documents", data_dir |-> data_dir,
                      loaded |-> AllLoads[data_dir]]
    /\ UNCHANGED <<engineVars, storeVars, shellVars, scriptVars>>

(***************************************************************************)
(* DocumentProcessor: chunking.  The splitter is the library's             *)
(* RecursiveCharacterTextSplitter with length_function=len, the separators *)
(* of __init__, keep_separator and strip_whitespace at their defaults.     *)
(* A piece of a text is the pair <<lo, hi>> of its first and last position.*)
(***************************************************************************)

\* separators=["\n\n", "\n", ". ", " ", ""]
separators == <<"\n\n", "\n", ". ", " ", "">>

\* the chunk_size and chunk_overlap a DocumentProcessor is constructed with
SplitterConfigs ==
    {[chunk_size |-> 5, chunk_overlap |-> 2],
     [chunk_size |-> 4, chunk_overlap |-> 0],
     [chunk_size |-> 8, chunk_overlap |-> 3]}

Size(piece) == piece[2] - piece[1] + 1

RECURSIVE SeparatorStarts(_, _, _, _)
\* the starts of the matches of a separator within positions i..hi of the
\* text, left to right without overlap
SeparatorStarts(text, separator, i, hi) ==
    IF i + Len(separator) - 1 > hi THEN <<>>
    ELSE IF SubSeq(text, i, i + Len(separator) - 1) = separator
         THEN <<i>> \o SeparatorStarts(text, separator, i + Len(separator), hi)
         ELSE SeparatorStarts(text, separator, i + 1, hi)

\* _split_text_with_regex with keep_separator: the text lo..hi cut before
\* every match, each separator staying at the head of the piece after it; the
\* empty pieces are dropped.  The empty separator cuts between all characters.
split_with_separator(text, lo, hi, separator) ==
    IF separator = ""
    THEN [k \in 1..(hi - lo + 1) |-> <<lo + k - 1, lo + k - 1>>]
    ELSE LET starts == SeparatorStarts(text, separator, lo, hi)
             cuts == <<lo>> \o starts \o <<hi + 1>>
             pieces == [k \in 1..(Len(cuts) - 1) |-> <<cuts[k], cuts[k + 1] - 1>>]
         IN  SelectSeq(pieces, LAMBDA piece : Size(piece) > 0)

RECURSIVE strip_piece(_, _)
\* text.strip() of a piece: the piece without its leading and trailing whitespace
strip_piece(text, piece) ==
    IF Size(piece) <= 0 THEN piece
    ELSE IF IsSpace(SubSeq(text, piece[1], piece[1]))
    THEN strip_piece(text, <<piece[1] + 1, piece[2]>>)
    ELSE IF IsSpace(SubSeq(text, piece[2], piece[2]))
    THEN strip_piece(text, <<piece[1], piece[2] - 1>>)
    ELSE piece

\* _join_docs of consecutive pieces with the empty separator: the chunk they
\* make, as a list of no chunk when nothing but whitespace is left
join_docs(text, current_doc) ==
    IF current_doc = <<>> THEN <<>>
    ELSE LET joined == strip_piece(text, <<current_doc[1][1], current_doc[Len(current_doc)][2]>>)
         IN  IF Size(joined) <= 0 THEN <<>> ELSE <<joined>>

RECURSIVE pop_overlap_keeps_all(_, _, _, _, _)
\* the loop leaving the whole previous chunk in the window when it fits
pop_overlap_keeps_all(current_doc, total, len, chunk_size, chunk_overlap) ==
    IF total + len > chunk_size /\ total > 0
    THEN pop_overlap_keeps_all(Tail(current_doc), total - Size(Head(current_doc)), len,
                               chunk_size, chunk_overlap)
    ELSE [current_doc |-> current_doc, total |-> total]

RECURSIVE pop_overlap(_, _, _, _, _)
\* the while loop of _merge_splits: pieces leave the head of the window until
\* what stays is no longer than the overlap and the next piece fits
pop_overlap(current_doc, total, len, chunk_size, chunk_overlap) ==
    IF total > chunk_overlap \/ (total + len > chunk_size /\ total > 0)
    THEN pop_overlap(Tail(current_doc), total - Size(Head(current_doc)), len,
                     chunk_size, chunk_overlap)
    ELSE [current_doc |-> current_doc, total |-> total]

RECURSIVE merge_from(_, _, _, _, _, _, _)
\* _merge_splits from the k-th piece on; docs are the chunks made so far,
\* current_doc the window of pieces of the chunk being built
merge_from(text, splits, k, docs, current_doc, chunk_size, chunk_overlap) ==
    IF k > Len(splits) THEN docs \o join_docs(text, current_doc)
    ELSE LET d == splits[k]
             total == IF current_doc = <<>> THEN 0
                      ELSE current_doc[Len(current_doc)][2] - current_doc[1][1] + 1
         IN  IF total + Size(d) > chunk_size /\ current_doc # <<>>
             THEN LET kept == pop_overlap(current_doc, total, Size(d),
                                          chunk_size, chunk_overlap)
                  IN  merge_from(text, splits, k + 1,
                                 docs \o join_docs(text, current_doc),
                                 Append(kept.current_doc, d), chunk_size, chunk_overlap)
             ELSE merge_from(text, splits, k + 1, docs, Append(current_doc, d),
                             chunk_size, chunk_overlap)

\* _merge_splits(splits, "")
merge_splits(text, splits, chunk_size, chunk_overlap) ==
    merge_from(text, splits, 1, <<>>, <<>>, chunk_size, chunk_overlap)

\* the separator that lists the finer ones first
first_separator_finest(text, lo, hi, seps) == Len(seps)

\* the index of the separator _split_text uses on text lo..hi: the first of
\* the list that is empty or occurs in the text
first_separator(text, lo, hi, seps) ==
    CHOOSE i \in 1..Len(seps) :
        /\ seps[i] = "" \/ SeparatorStarts(text, seps[i], lo, hi) # <<>>
        /\ \A j \in 1..(i - 1) :
              seps[j] # "" /\ SeparatorStarts(text, seps[j], lo, hi) = <<>>

RECURSIVE _split_text(_, _, _, _, _, _)
RECURSIVE split_pieces(_, _, _, _, _, _, _, _)
\* the loop of _split_text over the pieces: the short ones are collected and
\* merged, a piece of chunk_size or more is split with the next separators,
\* or kept whole when none is left
split_pieces(text, splits, k, good_splits, final_chunks, new_separators, chunk_size, chunk_overlap) ==
    IF k > Len(splits)
    THEN final_chunks \o merge_splits(text, good_splits, chunk_size, chunk_overlap)
    ELSE IF Size(splits[k]) < chunk_size
    THEN split_pieces(text, splits, k + 1, Append(good_splits, splits[k]), final_chunks,
                      new_separators, chunk_size, chunk_overlap)
    ELSE LET merged == final_chunks
                       \o merge_splits(text, good_splits, chunk_size, chunk_overlap)
         IN  IF new_separators = <<>>
             THEN split_pieces(text, splits, k + 1, <<>>, Append(merged, splits[k]),
                               new_separators, chunk_size, chunk_overlap)
             ELSE split_pieces(text, splits, k + 1, <<>>,
                               merged \o _split_text(text, splits[k][1], splits[k][2],
                                                     new_separators, chunk_size,
                                                     chunk_overlap),
                               new_separators, chunk_size, chunk_overlap)

\* _split_text(text[lo..hi], seps): the chunks, as pieces of the text
_split_text(text, lo, hi, seps, chunk_size, chunk_overlap) ==
    LET i == first_separator(text, lo, hi, seps)
        new_separators == IF seps[i] = "" THEN <<>> ELSE SubSeq(seps, i + 1, Len(seps))
    IN  split_pieces(text, split_with_separator(text, lo, hi, seps[i]), 1, <<>>, <<>>,
                     new_separators, chunk_size, chunk_overlap)

\* text_splitter.split_text(text)
split_text(text, chunk_size, chunk_overlap) ==
    _split_text(text, 1, Len(text), separators, chunk_size, chunk_overlap)

\* split_text of the page texts of the model, computed once per configuration
SplitTable ==
    [config \in SplitterConfigs |->
        [text \in ToSet(PageTexts) |->
            split_text(text, config.chunk_size, config.chunk_overlap)]]

\* split_documents([doc]) with the page number left out of the chunks' metadata
split_document_without_page(doc, config) ==
    LET pieces == SplitTable[config][doc.page_content]
    IN  [k \in 1..Len(pieces) |->
            [page_content |-> SubSeq(doc.page_content, pieces[k][1], pieces[k][2]),
             metadata |-> [key \in DOMAIN doc.metadata \ {"page"} |-> doc.metadata[key]]]]

\* text_splitter.split_documents([doc]): one Document per chunk of the text,
\* each with a copy of the metadata of doc
split_document(doc, config) ==
    LET pieces == SplitTable[config][doc.page_content]
    IN  [k \in 1..Len(pieces) |->
            [page_content |-> SubSeq(doc.page_content, pieces[k][1], pieces[k][2]),
             metadata |-> doc.metadata]]

RECURSIVE chunk_documents(_, _)
\* chunk_documents: the chunks of each document, document after document
chunk_documents(documents, config) ==
    IF documents = <<>> THEN <<>>
    ELSE split_document(Head(documents), config)
         \o chunk_documents(Tail(documents), config)

RECURSIVE chunk_pieces(_, _)
\* where each chunk of chunk_documents lies: the position of its document in
\* the input and its first and last position in that document's text
chunk_pieces(documents, config) ==
    IF documents = <<>> THEN <<>>
    ELSE LET last == documents[Len(documents)]
             pieces == SplitTable[config][last.page_content]
         IN  chunk_pieces(SubSeq(documents, 1, Len(documents) - 1), config)
             \o [k \in 1..Len(pieces) |->
                   [document |-> Len(documents), lo |-> pieces[k][1], hi |-> pieces[k][2]]]

NoDocumentsLoaded == "No documents were loaded. Please check your data directory."

\* what process_all_documents gives: the documents it loaded, whether it
\* raised and with what, whether chunk_documents was called, and the chunks
Processing(documents, raised, error, chunking, chunks) ==
    [documents |-> documents, raised |-> raised, error |-> error,
     chunking |-> chunking, chunks |-> chunks]

\* process_all_documents returning no chunk when nothing was loaded
process_all_documents_lenient(data_dir, config) ==
    LET documents == load_all_documents(data_dir).documents
    IN  Processing(documents, FALSE, "", TRUE, chunk_documents(documents, config))

process_all_documents(data_dir, config) ==
    LET documents == load_all_documents(data_dir).documents
    IN  IF documents = <<>>
        THEN Processing(documents, TRUE, NoDocumentsLoaded, FALSE, <<>>)
        ELSE Processing(documents, FALSE, "", TRUE, chunk_documents(documents, config))

\* the document lists given to chunk_documents: what the loader returns
DocumentLists ==
    {PdfLoads[company][directory].documents :
        company \in DOMAIN PdfLoads, directory \in Directories}

\* the calls of chunk_documents and process_all_documents on the inputs of the
\* model, computed once
Chunkings ==
    [config \in SplitterConfigs |->
        [documents \in DocumentLists |->
            [chunks |-> chunk_documents(documents, config),
             pieces |-> chunk_pieces(documents, config)]]]

Processings ==
    [config \in SplitterConfigs |->
        [data_dir \in DataDirectories |-> process_all_documents(data_dir, config)]]

\* chunk_documents on the documents loaded from one company directory
ChunkDocuments ==
    /\ \E documents \in DocumentLists, config \in SplitterConfigs :
          docCall' = [op |-> "chunk_documents", documents |-> documents,
                      config |-> config,
                      chunks |-> Chunkings[config][documents].chunks,
                      pieces |-> Chunkings[config][documents].pieces]
    /\ UNCHANGED <<engineVars, storeVars, shellVars, scriptVars>>

ProcessAllDocuments ==
    /\ \E data_dir \in DataDirectories, config \in SplitterConfigs :
          docCall' = [op |-> "process_all_documents", data_dir |-> data_dir,
                      config |-> config,
                      done |-> Processings[config][data_dir]]
    /\ UNCHANGED <<engineVars, storeVars, shellVars, scriptVars>>

NextDocs ==
    \/ LoadPdfsFromDirectory
    \/ LoadAllDocuments
    \/ ChunkDocuments
    \/ ProcessAllDocuments
    \/ ExtractYearFromFilename

SpecDocs == InitQuery /\ [][NextDocs]_vars

(***************************************************************************)
(* VectorStoreManager                                                      *)
(***************************************************************************)

\* documents embedded per backend call
batch_size == 100

\* create_vectorstore is given documents that fill at most this many batches
MaxBatches == 3

\* create_vectorstore is started only over a collection of at most this many entries
MaxExisting == 1

\* the numbers of documents given to create_vectorstore: none, one, and a
\* whole number of batches with and without one more
DocCounts ==
    {0, 1} \cup {j * batch_size + d : j \in 1..(MaxBatches - 1), d \in {0, 1}}

\* the k argument of search and search_with_score: explicit, and the default
SearchKs == {1, 4}

\* the handle held by the adapter once Chroma(...) or Chroma.from_documents(...) returned
Chroma == "Chroma"

NotInitializedSearch ==
    "Vector store not initialized. Call load_vectorstore() or create_vectorstore() first."
NotInitializedScore == "Vector store not initialized."
EmptyStore == "Vector store is empty. Please create a new one."
\* the message of an exception raised inside the Chroma backend or the embedding service
BackendError == "backend error"

\* documents[lo-1:hi] as the sequence of its (1-based) document numbers
Slice(lo, hi) == [i \in 1..(hi - lo + 1) |-> lo + i - 1]

Min(a, b) == IF a < b THEN a ELSE b

\* Batches with the appending loop started at document 0 again
Batches_restart(n) ==
    IF n > batch_size
    THEN <<[call |-> "from_documents", lo |-> 1, hi |-> batch_size]>>
         \o [j \in 1..((n - 1) \div batch_size + 1) |->
               [call |-> "add_documents",
                lo |-> (j - 1) * batch_size + 1,
                hi |-> Min(j * batch_size, n)]]
    ELSE <<[call |-> "from_documents", lo |-> 1, hi |-> n]>>

\* the backend calls create_vectorstore makes for n documents, in order: the
\* call and the slice of documents it is given
Batches(n) ==
    IF n > batch_size
    THEN <<[call |-> "from_documents", lo |-> 1, hi |-> batch_size]>>
         \o [j \in 1..((n - 1) \div batch_size) |->
               [call |-> "add_documents",
                lo |-> j * batch_size + 1,
                hi |-> Min(j * batch_size + batch_size, n)]]
    ELSE <<[call |-> "from_documents", lo |-> 1, hi |-> n]>>

\* what a VectorStoreManager call leaves: the adapter's handle, the disk, the
\* persisted collection, and how the call ended
StoreOutcome(vs, dir, db, coll, outcome, error, calls) ==
    [vectorstore |-> vs, dirExists |-> dir, dbExists |-> db, collection |-> coll,
     outcome |-> outcome, error |-> error, backendCalls |-> calls]

RECURSIVE Inserted(_, _)
\* the documents of the first `done` backend calls, in the order they were sent
Inserted(batches, done) ==
    IF done = 0 THEN <<>>
    ELSE Inserted(batches, done - 1) \o Slice(batches[done].lo, batches[done].hi)

\* create_vectorstore undoing the batches it inserted when a later one fails
create_vectorstore_atomic(n, failAt, beforeClient, vs, dir, db, coll) ==
    LET batches == Batches(n)
        attempted == IF failAt = 0 THEN Len(batches) ELSE failAt
        opened == ~(failAt = 1 /\ beforeClient)
    IN  StoreOutcome(IF failAt = 0 THEN Chroma ELSE vs,
                     dir \/ opened,
                     db \/ opened,
                     IF failAt = 0 THEN coll \o Inserted(batches, Len(batches)) ELSE coll,
                     IF failAt = 0 THEN "returned" ELSE "raised",
                     IF failAt = 0 THEN "" ELSE BackendError,
                     SubSeq(batches, 1, attempted))

\* create_vectorstore catching the failure of an appended batch and returning the store
create_vectorstore_keeps_going(n, failAt, beforeClient, vs, dir, db, coll) ==
    LET batches == Batches(n)
        done == IF failAt = 0 THEN Len(batches) ELSE failAt - 1
        attempted == IF failAt = 0 THEN Len(batches) ELSE failAt
        opened == ~(failAt = 1 /\ beforeClient)
    IN  StoreOutcome(IF done >= 1 THEN Chroma ELSE vs,
                     dir \/ opened,
                     db \/ opened,
                     coll \o Inserted(batches, done),
                     IF failAt <= 1 /\ failAt # 0 THEN "raised" ELSE "returned",
                     IF failAt <= 1 /\ failAt # 0 THEN BackendError ELSE "",
                     SubSeq(batches, 1, attempted))

\* create_vectorstore on n documents; failAt is the backend call that raises
\* (0: none), beforeClient tells whether a failing from_documents raised before
\* it opened the persistent client
create_vectorstore(n, failAt, beforeClient, vs, dir, db, coll) ==
    LET batches == Batches(n)
        done == IF failAt = 0 THEN Len(batches) ELSE failAt - 1
        attempted == IF failAt = 0 THEN Len(batches) ELSE failAt
        opened == ~(failAt = 1 /\ beforeClient)
        inserted == Inserted(batches, done)
    IN  StoreOutcome(IF done >= 1 THEN Chroma ELSE vs,
                     dir \/ opened,
                     db \/ opened,
                     coll \o inserted,
                     IF failAt = 0 THEN "returned" ELSE "raised",
                     IF failAt = 0 THEN "" ELSE BackendError,
                     SubSeq(batches, 1, attempted))

\* the backend call of load_vectorstore that raises
LoadFailures == {"none", "Chroma", "count"}

\* load_vectorstore; failAt is the backend call that raises: Chroma(...), which
\* opens the persistent client and gets or creates the collection, or count()
load_vectorstore(failAt, vs, dir, db, coll) ==
    IF failAt = "Chroma"
    THEN StoreOutcome(vs, dir, db, coll, "raised", BackendError, <<"Chroma">>)
    ELSE IF failAt = "count"
    THEN StoreOutcome(Chroma, TRUE, TRUE, coll, "raised", BackendError,
                      <<"Chroma", "count">>)
    ELSE IF Len(coll) = 0
    THEN StoreOutcome(Chroma, TRUE, TRUE, coll, "raised", EmptyStore,
                      <<"Chroma", "count">>)
    ELSE StoreOutcome(Chroma, TRUE, TRUE, coll, "returned", "", <<"Chroma", "count">>)

\* vectorstore_exists: whether persist_directory / "chroma.sqlite3" exists
vectorstore_exists(dir, db) == dir /\ db

\* search; backendRaises tells whether similarity_search raised
search(backendRaises, vs, dir, db, coll) ==
    IF vs = None
    THEN StoreOutcome(vs, dir, db, coll, "raised", NotInitializedSearch, <<>>)
    ELSE IF backendRaises
    THEN StoreOutcome(vs, dir, db, coll, "raised", BackendError, <<"similarity_search">>)
    ELSE StoreOutcome(vs, dir, db, coll, "returned", "", <<"similarity_search">>)

\* search_with_score; backendRaises tells whether similarity_search_with_score raised
search_with_score(backendRaises, vs, dir, db, coll) ==
    IF vs = None
    THEN StoreOutcome(vs, dir, db, coll, "raised", NotInitializedScore, <<>>)
    ELSE IF backendRaises
    THEN StoreOutcome(vs, dir, db, coll, "raised", BackendError,
                      <<"similarity_search_with_score">>)
    ELSE StoreOutcome(vs, dir, db, coll, "returned", "",
                      <<"similarity_search_with_score">>)

\* delete_vectorstore removing the directory only when a store is held
delete_vectorstore_only_held(vs, dir, db, coll) ==
    IF dir /\ vs # None
    THEN StoreOutcome(None, FALSE, FALSE, <<>>, "returned", "", <<>>)
    ELSE StoreOutcome(None, dir, db, coll, "returned", "", <<>>)

\* delete_vectorstore: rmtree of the directory when it exists, and the handle dropped
delete_vectorstore(vs, dir, db, coll) ==
    IF dir
    THEN StoreOutcome(None, FALSE, FALSE, <<>>, "returned", "", <<>>)
    ELSE StoreOutcome(None, dir, db, coll, "returned", "", <<>>)

\* the record kept of a VectorStoreManager call: the operation, its argument,
\* the state it started from, how it ended and what it returned
StoreCall(op, arg, out, returned) ==
    [op |-> op, arg |-> arg,
     before |-> [vectorstore |-> vectorstore, dirExists |-> dirExists,
                 dbExists |-> dbExists, count |-> Len(collection),
                 initialized |-> initialized],
     outcome |-> out.outcome, error |-> out.error,
     backendCalls |-> out.backendCalls, returned |-> returned]

\* the assignments every VectorStoreManager call makes from its outcome
StoreEffect(out) ==
    /\ vectorstore' = out.vectorstore
    /\ dirExists' = out.dirExists
    /\ dbExists' = out.dbExists
    /\ collection' = out.collection

\* the number of results of a search for k: the k closest entries, fewer when
\* the collection holds fewer or the filter leaves fewer
ResultCounts(k, filtered, count) ==
    IF filtered THEN 0..Min(k, count) ELSE {Min(k, count)}

CreateVectorstore ==
    /\ Len(collection) <= MaxExisting
    /\ \E n \in DocCounts :
       \E failAt \in 0..Len(Batches(n)), beforeClient \in BOOLEAN :
          LET out == create_vectorstore(n, failAt, beforeClient,
                                        vectorstore, dirExists, dbExists, collection)
          IN  /\ beforeClient => failAt = 1
              /\ StoreEffect(out)
              /\ initialized' = (initialized \/ out.outcome = "returned")
              /\ persistTried' = TRUE
              /\ vsCall' = StoreCall("create_vectorstore", [n |-> n, failAt |-> failAt], out,
                                     IF out.outcome = "returned"
                                     THEN out.vectorstore ELSE None)
    /\ UNCHANGED <<engineVars, shellVars, docVars, scriptVars>>

LoadVectorstore ==
    /\ \E failAt \in LoadFailures :
          LET out == load_vectorstore(failAt,
                                      vectorstore, dirExists, dbExists, collection)
          IN  /\ StoreEffect(out)
              /\ initialized' = (initialized \/ out.outcome = "returned")
              /\ persistTried' = TRUE
              /\ vsCall' = StoreCall("load_vectorstore", None, out,
                                     IF out.outcome = "returned"
                                     THEN out.vectorstore ELSE None)
    /\ UNCHANGED <<engineVars, shellVars, docVars, scriptVars>>

VectorstoreExists ==
    /\ vsCall' = StoreCall("vectorstore_exists", None,
                           StoreOutcome(vectorstore, dirExists, dbExists, collection,
                                        "returned", "", <<>>),
                           vectorstore_exists(dirExists, dbExists))
    /\ UNCHANGED <<vectorstore, dirExists, dbExists, collection, initialized,
                   persistTried, engineVars, shellVars, docVars, scriptVars>>

Search ==
    /\ \E k \in SearchKs, filtered \in BOOLEAN, backendRaises \in BOOLEAN :
          LET out == search(backendRaises, vectorstore, dirExists, dbExists, collection)
          IN  /\ backendRaises => vectorstore # None
              /\ StoreEffect(out)
              /\ \E found \in ResultCounts(k, filtered, Len(collection)) :
                    vsCall' = StoreCall("search", [k |-> k, filtered |-> filtered], out,
                                        IF out.outcome = "returned" THEN found ELSE None)
    /\ UNCHANGED <<initialized, persistTried, engineVars, shellVars, docVars, scriptVars>>

SearchWithScore ==
    /\ \E k \in SearchKs, backendRaises \in BOOLEAN :
          LET out == search_with_score(backendRaises,
                                       vectorstore, dirExists, dbExists, collection)
          IN  /\ backendRaises => vectorstore # None
              /\ StoreEffect(out)
              /\ vsCall' = StoreCall("search_with_score", [k |-> k, filtered |-> FALSE], out,
                                     IF out.outcome = "returned"
                                     THEN Min(k, Len(collection)) ELSE None)
    /\ UNCHANGED <<initialized, persistTried, engineVars, shellVars, docVars, scriptVars>>

DeleteVectorstore ==
    /\ LET out == delete_vectorstore(vectorstore, dirExists, dbExists, collection)
       IN  /\ StoreEffect(out)
           /\ vsCall' = StoreCall("delete_vectorstore", None, out, None)
    /\ initialized' = FALSE
    /\ persistTried' = FALSE
    /\ UNCHANGED <<engineVars, shellVars, docVars, scriptVars>>

\* VectorStoreManager.__init__ once more over the same disk (a new process):
\* the directory is made, the handle is None
NewVectorStoreManager ==
    /\ vectorstore' = None
    /\ dirExists' = TRUE
    /\ initialized' = FALSE
    /\ vsCall' = StoreCall("__init__", None,
                           StoreOutcome(None, TRUE, dbExists, collection, "returned", "", <<>>),
                           None)
    /\ UNCHANGED <<dbExists, collection, persistTried, engineVars, shellVars, docVars, scriptVars>>

\* a VectorStoreManager right after __init__, over a disk that holds no index,
\* an index without entries, or an index with one entry
InitStore ==
    /\ vectorstore = None
    /\ dirExists = TRUE
    /\ dbExists \in BOOLEAN
    /\ collection \in (IF dbExists THEN {<<>>, <<1>>} ELSE {<<>>})
    /\ initialized = FALSE
    /\ persistTried = dbExists
    /\ vsCall = [op |-> "__init__", arg |-> None,
                 before |-> [vectorstore |-> None, dirExists |-> dirExists,
                             dbExists |-> dbExists, count |-> Len(collection),
                             initialized |-> FALSE],
                 outcome |-> "returned", error |-> "", backendCalls |-> <<>>,
                 returned |-> None]

\* no RAGEngine was constructed
InitAdapter == InitStore /\ InitEngine /\ InitShell /\ InitDocs /\ rag = None /\ InitSetup

NextStore ==
    \/ CreateVectorstore
    \/ LoadVectorstore
    \/ VectorstoreExists
    \/ Search
    \/ SearchWithScore
    \/ DeleteVectorstore
    \/ NewVectorStoreManager

SpecStore == InitAdapter /\ [][NextStore]_vars

(***************************************************************************)
(* Properties of the query orchestrator, checked under SpecQuery           *)
(***************************************************************************)

\* the last call is a call of the named operation
Called(op) == lastCall.op = op

\* a completed chain invocation whose answer holds the no-information phrase
\* in any letter case and that returned zero source chunks
WeakResponse(r) ==
    /\ ~r.raised
    /\ Contains("don't have that information", lower(r.answer))
    /\ Len(r.source_documents) = 0

\* the question holds one of the expansion keywords in any letter case
HasExpansionKeyword(question) ==
    \E term \in {"revenue", "profit", "growth"} : Contains(term, lower(question))

\* the result that hands a response back unchanged
Unchanged(r) ==
    [answer |-> r.answer, source_documents |-> r.source_documents, success |-> TRUE]

\* C1: query makes its second chain invocation only after a first answer that
\* holds the no-information phrase (in any letter case) and has zero sources;
\* a first attempt that completed and is not of that kind is the only
\* invocation, and whenever a completed first attempt is the only invocation
\* its answer and sources are returned unchanged with success = true.
C1_SecondAttemptOnlyWhenWeak ==
    Called("query") =>
        LET inv == lastCall.invocations
            r1 == inv[1].response
        IN  /\ Len(inv) \in {1, 2}
            /\ Len(inv) = 2 => WeakResponse(r1)
            /\ (~r1.raised /\ ~WeakResponse(r1)) => Len(inv) = 1
            /\ (~r1.raised /\ Len(inv) = 1) => lastCall.result = Unchanged(r1)

\* C1 witness: a retry after a mixed-case no-information answer with no sources
C1_Witness ==
    /\ Called("query")
    /\ Len(lastCall.invocations) = 2
    /\ lastCall.invocations[1].response.answer = "I Don't Have That Information."
    /\ lastCall.invocations[1].response.source_documents = <<>>

\* C2: a weak first attempt on a question holding an expansion keyword is
\* retried exactly once with the synonyms appended, the completed second
\* attempt is returned whatever it is, and no call of query makes a third
\* chain invocation.
C2_RetriedExactlyOnce ==
    Called("query") =>
        LET inv == lastCall.invocations
            q == lastCall.question
        IN  /\ Len(inv) <= 2
            /\ (WeakResponse(inv[1].response) /\ HasExpansionKeyword(q)) =>
                  /\ Len(inv) = 2
                  /\ inv[1].question = q
                  /\ inv[2].question # q
                  /\ \E i \in 1..Len(expansions) :
                        /\ Contains(expansions[i][1], lower(q))
                        /\ inv[2].question = q \o " (including " \o expansions[i][2] \o ")"
                  /\ ~inv[2].response.raised =>
                        lastCall.result = Unchanged(inv[2].response)

\* C2 witness: the retry again gave a no-information answer with zero sources,
\* and that answer is what the call returned
C2_Witness ==
    /\ Called("query")
    /\ Len(lastCall.invocations) = 2
    /\ WeakResponse(lastCall.invocations[2].response)
    /\ lastCall.result = Unchanged(lastCall.invocations[2].response)
    /\ lastCall.invocations[2].question =
          "Profit and revenue (including revenue total sales net sales turnover)"

\* C3: _expand_financial_query appends the synonyms of the first of revenue,
\* profit, growth (in this order) that the lower-cased question holds, to the
\* original question, and returns the question unchanged when it holds none.
C3_ExpandsFirstKeywordOnly ==
    Called("_expand_financial_query") =>
        LET q == lastCall.question
            expanded == lastCall.result.answer
            has(term) == Contains(term, lower(q))
        IN  /\ has("revenue") =>
                  expanded = q \o " (including revenue total sales net sales turnover)"
            /\ (~has("revenue") /\ has("profit")) =>
                  expanded = q \o " (including profit net income earnings EBIT EBITDA net profit)"
            /\ (~has("revenue") /\ ~has("profit") /\ has("growth")) =>
                  expanded = q \o " (including growth increase change trend performance)"
            /\ (~has("revenue") /\ ~has("profit") /\ ~has("growth")) => expanded = q

\* C3 witness: a question holding all three keywords, revenue last, in mixed
\* case gets the revenue synonyms only
C3_Witness ==
    /\ Called("_expand_financial_query")
    /\ lastCall.question = "Growth, profit, revenue"
    /\ lastCall.result.answer =
          "Growth, profit, revenue (including revenue total sales net sales turnover)"

\* C4: a call of query that returns success = true leaves the history equal to
\* the previous history followed by one human turn holding the question and
\* one ai turn holding the returned answer.
C4_OnePairAppended ==
    (Called("query") /\ lastCall.result.success) =>
        messages = lastCall.histBefore \o
                      << [role |-> "human", content |-> lastCall.question],
                         [role |-> "ai", content |-> lastCall.result.answer] >>

\* the filter a call of query_with_filter asks for: its non-empty arguments
AskedFilter(call) ==
    [key \in {k \in {"company", "year"} : call[k] # None /\ call[k] # ""} |-> call[key]]

\* C5: after query_with_filter, whether its chain invocation completed or
\* raised, the retriever's settings equal the settings before the call; a chain
\* invocation runs under a filter only inside the query_with_filter call that
\* asked for that filter.
C5_FilterNeverLeaks ==
    /\ Called("query_with_filter") => search_kwargs = lastCall.kwargsBefore
    /\ \A i \in 1..Len(lastCall.invocations) :
          LET used == lastCall.invocations[i].search_kwargs
          IN  IF Called("query_with_filter") /\ DOMAIN AskedFilter(lastCall) # {}
              THEN "filter" \in DOMAIN used /\ used.filter = AskedFilter(lastCall)
              ELSE "filter" \notin DOMAIN used

\* C5 witness: a call filtered on the year alone whose chain invocation raised,
\* made under the filter, and the settings are back without a filter
C5_Witness ==
    /\ Called("query_with_filter")
    /\ lastCall.company = None
    /\ lastCall.year = "2023"
    /\ lastCall.invocations[1].response.raised
    /\ lastCall.invocations[1].search_kwargs.filter = [year |-> "2023"]
    /\ "filter" \notin DOMAIN search_kwargs

\* C6: for the same question and the same chain responses query_with_filter
\* makes the chain invocations query makes (the plain question, then the
\* expanded question after a weak result) and returns what query returns.
C6_SameStrategyAsQuery ==
    Called("query_with_filter") =>
        LET inv == lastCall.invocations
            kwargs == inv[1].search_kwargs
        IN  \A r2 \in ChainResponses(kwargs) :
               LET q == query(lastCall.question, inv[1].response, r2,
                              lastCall.histBefore, kwargs)
               IN  /\ Len(inv) = Len(q.invocations)
                   /\ Len(q.invocations) = 1 => lastCall.result = q.result

\* C7: when a chain invocation of query or query_with_filter raises, nothing
\* escapes to the caller: the call returns success = false, an answer that
\* carries the error message, and no source documents.
C7_FailureNotPropagated ==
    (Called("query") \/ Called("query_with_filter")) =>
        /\ lastCall.raised = None
        /\ \A i \in 1..Len(lastCall.invocations) :
              LET r == lastCall.invocations[i].response
              IN  r.raised =>
                     /\ lastCall.result.success = FALSE
                     /\ lastCall.result.answer = "Error processing query: " \o r.error
                     /\ Contains(r.error, lastCall.result.answer)
                     /\ lastCall.result.source_documents = <<>>

\* C7 witness: the expanded second attempt raised after a completed first one
C7_Witness ==
    /\ Called("query")
    /\ Len(lastCall.invocations) = 2
    /\ ~lastCall.invocations[1].response.raised
    /\ lastCall.invocations[2].response.raised
    /\ lastCall.result.success = FALSE
    /\ lastCall.raised = None

\* C27: a call of query or query_with_filter that returns success = false
\* leaves the conversation history exactly as it was before the call, also
\* when the failure happens in the expanded second attempt after a first
\* attempt that completed.
C27_FailureLeavesHistory ==
    ((Called("query") \/ Called("query_with_filter")) /\ ~lastCall.result.success) =>
        messages = lastCall.histBefore

\* C28: when the first attempt of query is weak and the question holds none of
\* revenue, profit, growth, the expansion returns the question unchanged, no
\* second chain invocation is made, and the weak first result is returned with
\* success = true.
C28_NoRetryWithoutKeyword ==
    (/\ Called("query")
     /\ WeakResponse(lastCall.invocations[1].response)
     /\ ~HasExpansionKeyword(lastCall.question)) =>
        /\ _expand_financial_query(lastCall.question) = lastCall.question
        /\ Len(lastCall.invocations) = 1
        /\ lastCall.invocations[1].question = lastCall.question
        /\ lastCall.result = Unchanged(lastCall.invocations[1].response)
        /\ lastCall.result.success

\* C28 witness: a question without a keyword got a no-information answer with
\* zero sources from its only invocation, and that answer was returned
C28_Witness ==
    /\ Called("query")
    /\ ~HasExpansionKeyword(lastCall.question)
    /\ Len(lastCall.invocations) = 1
    /\ WeakResponse(lastCall.invocations[1].response)
    /\ lastCall.result.success
    /\ Contains("don't have that information", lower(lastCall.result.answer))
    /\ lastCall.result.source_documents = <<>>

(***************************************************************************)
(* Properties of the vector store adapter, checked under SpecStore         *)
(***************************************************************************)

\* the last adapter call is a call of the named operation
StoreCalled(op) == vsCall.op = op

\* C8: search and search_with_score reach the backend only if a create or load
\* completed since construction and since the last delete; otherwise they fail
\* with the "not initialized" error.
C8_SearchOnlyWhenInitialized ==
    (StoreCalled("search") \/ StoreCalled("search_with_score")) =>
        /\ vsCall.backendCalls # <<>> => vsCall.before.initialized
        /\ ~vsCall.before.initialized =>
              /\ vsCall.outcome = "raised"
              /\ Contains("not initialized", vsCall.error)

\* C9: vectorstore_exists() is false while the disk held no index and neither
\* create nor load was called, true right after a create_vectorstore that
\* returned, false right after delete_vectorstore; and the value it returns is
\* the presence of the database file.
C9_ExistsFollowsCreateAndDelete ==
    /\ ~persistTried => ~vectorstore_exists(dirExists, dbExists)
    /\ (StoreCalled("create_vectorstore") /\ vsCall.outcome = "returned") =>
          vectorstore_exists(dirExists, dbExists)
    /\ StoreCalled("delete_vectorstore") => ~vectorstore_exists(dirExists, dbExists)
    /\ StoreCalled("vectorstore_exists") => vsCall.returned = dbExists

\* C9 witness: delete_vectorstore on a fresh adapter whose disk holds a
\* populated index, after which no index exists
C9_Witness ==
    /\ StoreCalled("delete_vectorstore")
    /\ vsCall.before.vectorstore = None
    /\ vsCall.before.dbExists
    /\ vsCall.before.count > 0
    /\ ~vectorstore_exists(dirExists, dbExists)

\* an error that tells the caller that no index was found
NotFoundStyle(error) ==
    \/ Contains("not found", lower(error))
    \/ Contains("no such file", lower(error))

\* C10: load_vectorstore, when its backend calls do not fail, raises a
\* NotFound-style error and creates nothing when no index was persisted, raises
\* the Empty error when the persisted index holds no entry, and returns a store
\* only when the persisted index holds at least one entry.
C10_LoadDistinguishesFailures ==
    (StoreCalled("load_vectorstore") /\ vsCall.error # BackendError) =>
        /\ ~vsCall.before.dbExists =>
              /\ vsCall.outcome = "raised"
              /\ NotFoundStyle(vsCall.error)
              /\ ~dbExists
        /\ (vsCall.before.dbExists /\ vsCall.before.count = 0) =>
              /\ vsCall.outcome = "raised"
              /\ vsCall.error = "Vector store is empty. Please create a new one."
        /\ vsCall.outcome = "returned" =>
              /\ vsCall.before.dbExists
              /\ vsCall.before.count >= 1
              /\ vsCall.returned # None

\* the entries the last adapter call added to the persisted collection
Added == SubSeq(collection, vsCall.before.count + 1, Len(collection))

\* C11: a create_vectorstore that returned sent its n documents in consecutive
\* batches of at most 100 that partition the input: the first batch through
\* from_documents, the later ones through add_documents, ceil(n/100) backend
\* calls for n > 0, and the collection gained documents 1..n once each, in order.
C11_BatchesPartitionInput ==
    (StoreCalled("create_vectorstore") /\ vsCall.outcome = "returned") =>
        LET n == vsCall.arg.n
            calls == vsCall.backendCalls
        IN  /\ n > 0 => Len(calls) = (n + 99) \div 100
            /\ Len(calls) >= 1
            /\ calls[1].call = "from_documents"
            /\ calls[1].lo = 1
            /\ calls[1].hi = (IF n <= 100 THEN n ELSE 100)
            /\ \A j \in 2..Len(calls) :
                  /\ calls[j].call = "add_documents"
                  /\ calls[j].lo = calls[j - 1].hi + 1
                  /\ calls[j].hi >= calls[j].lo
            /\ \A j \in 1..Len(calls) : calls[j].hi - calls[j].lo + 1 <= 100
            /\ calls[Len(calls)].hi = n
            /\ Added = [i \in 1..n |-> i]

\* C11 witness: 201 documents went out in three calls, the last holding one document
C11_Witness ==
    /\ StoreCalled("create_vectorstore")
    /\ vsCall.outcome = "returned"
    /\ vsCall.arg.n = 201
    /\ Len(vsCall.backendCalls) = 3
    /\ vsCall.backendCalls[3] = [call |-> "add_documents", lo |-> 201, hi |-> 201]

\* C12: when the backend fails on a batch of create_vectorstore, the first or a
\* later one, the call raises and returns no store; a create_vectorstore that
\* returned left every one of its documents in the collection.
C12_BatchFailureIsFatal ==
    StoreCalled("create_vectorstore") =>
        /\ vsCall.arg.failAt # 0 =>
              /\ vsCall.outcome = "raised"
              /\ vsCall.error # ""
              /\ vsCall.returned = None
        /\ vsCall.outcome = "returned" =>
              /\ vsCall.arg.failAt = 0
              /\ vsCall.returned # None
              /\ Len(Added) = vsCall.arg.n

\* C12 witness: the second batch of 101 documents failed and the call raised
C12_Witness ==
    /\ StoreCalled("create_vectorstore")
    /\ vsCall.arg = [n |-> 101, failAt |-> 2]
    /\ vsCall.outcome = "raised"
    /\ vsCall.returned = None
    /\ Len(Added) = 100

\* C26: bulk load is not atomic: when create_vectorstore fails on batch
\* j >= 2, the documents of batches 1..j-1 stay in the persisted index and no
\* later one is there, vectorstore_exists() is true, and the adapter holds a
\* handle to this partial index although the call raised.
C26_PartialIndexKept ==
    (StoreCalled("create_vectorstore") /\ vsCall.arg.failAt >= 2) =>
        LET j == vsCall.arg.failAt
        IN  /\ vsCall.outcome = "raised"
            /\ Added = [i \in 1..((j - 1) * 100) |-> i]
            /\ Len(Added) < vsCall.arg.n
            /\ dirExists /\ dbExists
            /\ vectorstore # None

\* C26 witness: the third batch of 201 documents failed with 200 of them inserted
C26_Witness ==
    /\ StoreCalled("create_vectorstore")
    /\ vsCall.arg = [n |-> 201, failAt |-> 3]
    /\ vsCall.outcome = "raised"
    /\ Len(Added) = 200
    /\ vectorstore # None

(***************************************************************************)
(* Properties of intent analysis and source formatting, checked under      *)
(* SpecAnalysis                                                            *)
(***************************************************************************)

\* C13: analyze_query_intent is pure: a call leaves the conversation history,
\* the retriever's search settings and the vector store as they were and
\* invokes neither the chain nor the backend, and a call that follows a call
\* on the same question returns the same companies, metrics and query_type
\* and the same set of years.
C13_AnalysisIsPure ==
    [][lastCall'.op = "analyze_query_intent" =>
          /\ UNCHANGED <<messages, search_kwargs, storeVars>>
          /\ lastCall'.invocations = <<>>
          /\ (lastCall.op = "analyze_query_intent"
              /\ lastCall.question = lastCall'.question) =>
                /\ lastCall'.result.companies = lastCall.result.companies
                /\ lastCall'.result.metrics = lastCall.result.metrics
                /\ lastCall'.result.query_type = lastCall.result.query_type
                /\ ToSet(lastCall'.result.years) = ToSet(lastCall.result.years)]_vars

\* C13 witness: an analysis made in the middle of a conversation returned its
\* two years in the order opposite to their order in the question
C13_Witness ==
    /\ Called("analyze_query_intent")
    /\ lastCall.question = "summary 2031 and 2049"
    /\ lastCall.result.years = <<"2049", "2031">>
    /\ messages # <<>>
    /\ messages = lastCall.histBefore

\* C14: query_type follows a strict priority over the lowercased question:
\* comparison (compare, between, versus), else trend (trend, over, growth),
\* else summary (summary, overview), else specific (exactly one company and
\* exactly one year detected), else general.
C14_QueryTypePriority ==
    Called("analyze_query_intent") =>
        LET q == lower(lastCall.question)
            r == lastCall.result
            comparison == Contains("compare", q) \/ Contains("between", q) \/ Contains("versus", q)
            trend == Contains("trend", q) \/ Contains("over", q) \/ Contains("growth", q)
            summary == Contains("summary", q) \/ Contains("overview", q)
            specific == Len(r.companies) = 1 /\ Len(r.years) = 1
        IN  /\ comparison => r.query_type = "comparison"
            /\ (~comparison /\ trend) => r.query_type = "trend"
            /\ (~comparison /\ ~trend /\ summary) => r.query_type = "summary"
            /\ (~comparison /\ ~trend /\ ~summary /\ specific) => r.query_type = "specific"
            /\ (~comparison /\ ~trend /\ ~summary /\ ~specific) => r.query_type = "general"

\* C14 witness: a question with a comparison keyword and, in capitals, a trend
\* keyword was classified as a comparison
C14_Witness ==
    /\ Called("analyze_query_intent")
    /\ lastCall.question = "tesla versus bmw GROWTH"
    /\ lastCall.result.query_type = "comparison"

\* the number a string of digits spells
RECURSIVE DecimalValue(_)
DecimalValue(s) ==
    IF Len(s) = 0 THEN 0
    ELSE 10 * DecimalValue(SubSeq(s, 1, Len(s) - 1))
         + (CHOOSE d \in 0..9 : SubSeq(Digits, d + 1, d + 1) = SubSeq(s, Len(s), Len(s)))

\* a 4-digit year of [2020, 2049] starts at position i of s
YearInRangeAt(s, i) ==
    /\ i + 3 <= Len(s)
    /\ \A k \in i..(i + 3) : IsDigit(SubSeq(s, k, k))
    /\ DecimalValue(SubSeq(s, i, i + 3)) \in 2020..2049

RECURSIVE ScannedYears(_, _)
\* the years of the range met from position i on, left to right without overlap
ScannedYears(s, i) ==
    IF i > Len(s) THEN {}
    ELSE IF YearInRangeAt(s, i)
         THEN {SubSeq(s, i, i + 3)} \cup ScannedYears(s, i + 4)
         ELSE ScannedYears(s, i + 1)

\* C15: every reported year is a 4-digit string with a value in [2020, 2049]
\* that occurs in the question, no year is reported twice, and every year of
\* the range met when scanning the question left to right without overlap is
\* reported.
C15_YearsInRange ==
    Called("analyze_query_intent") =>
        LET q == lastCall.question
            years == lastCall.result.years
        IN  /\ \A i \in 1..Len(years) :
                  /\ Len(years[i]) = 4
                  /\ YearInRangeAt(years[i], 1)
                  /\ Contains(years[i], q)
            /\ \A i, j \in 1..Len(years) : i # j => years[i] # years[j]
            /\ ScannedYears(q, 1) \subseteq ToSet(years)

\* C15 witness: of "202024 2022 2022" the years 2020 and 2022 were reported, once each
C15_Witness ==
    /\ Called("analyze_query_intent")
    /\ lastCall.question = "EBIT summary 202024 2022 2022"
    /\ Len(lastCall.result.years) = 2
    /\ ToSet(lastCall.result.years) = {"2020", "2022"}

\* C16: the recognized companies are reported in upper case, each at most
\* once, in the order BMW, TESLA, FORD whatever their order and letter case in
\* the question; "Compare BMW and Tesla revenue in 2023" gives companies
\* [BMW, TESLA], years [2023], metrics with revenue, query_type comparison.
C16_CompaniesInListOrder ==
    Called("analyze_query_intent") =>
        LET q == lower(lastCall.question)
            r == lastCall.result
            names == <<"BMW", "TESLA", "FORD">>
            spelled == <<"bmw", "tesla", "ford">>
            present == SelectSeq(<<1, 2, 3>>, LAMBDA k : Contains(spelled[k], q))
        IN  /\ r.companies = [i \in 1..Len(present) |-> names[present[i]]]
            /\ lastCall.question = "Compare BMW and Tesla revenue in 2023" =>
                  /\ r.companies = <<"BMW", "TESLA">>
                  /\ r.years = <<"2023">>
                  /\ "revenue" \in ToSet(r.metrics)
                  /\ r.query_type = "comparison"
            /\ lastCall.question = "tesla versus bmw GROWTH" =>
                  r.companies = <<"BMW", "TESLA">>

\* C16 witness: the question naming tesla before bmw, in lower case, gave BMW, TESLA
C16_Witness ==
    /\ Called("analyze_query_intent")
    /\ lastCall.question = "tesla versus bmw GROWTH"
    /\ lastCall.result.companies = <<"BMW", "TESLA">>

\* the (company, year) pair of a chunk
PairOf(chunk) == <<chunk.company, chunk.year>>

\* the positions at which a (company, year) pair is seen for the first time
FirstSeen(chunks) ==
    SelectSeq([i \in 1..Len(chunks) |-> i],
              LAMBDA i : \A j \in 1..(i - 1) : PairOf(chunks[j]) # PairOf(chunks[i]))

RECURSIVE ExpectedLines(_, _, _)
\* the groups from the k-th on: number, pair, file of the first chunk of the
\* pair, and the number of chunks with the pair
ExpectedLines(chunks, first, k) ==
    IF k > Len(first) THEN ""
    ELSE LET c == chunks[first[k]]
             count == Cardinality({i \in 1..Len(chunks) : PairOf(chunks[i]) = PairOf(c)})
         IN  str(k) \o ". " \o c.company \o " Annual Report " \o c.year \o "\n"
             \o "   File: " \o c.source_file \o "\n"
             \o "   Chunks referenced: " \o str(count) \o "\n"
             \o ExpectedLines(chunks, first, k + 1)

\* C17: format_sources returns "No sources available" exactly when it is given
\* no chunk; otherwise it writes one group per distinct (company, year) pair,
\* numbered in the order the pairs are first seen, each with the number of
\* chunks of that pair.
C17_GroupsByCompanyAndYear ==
    Called("format_sources") =>
        LET chunks == lastCall.source_documents
            text == lastCall.result
        IN  /\ (text = "No sources available") <=> (chunks = <<>>)
            /\ chunks # <<>> =>
                  text = "\n\nSources:\n"
                         \o "============================================================\n"
                         \o ExpectedLines(chunks, FirstSeen(chunks), 1)

\* C17 witness: three chunks of (BMW, 2023) around one of (Ford, 2022) make two
\* groups, with counts 3 and 1
C17_Witness ==
    /\ Called("format_sources")
    /\ Len(lastCall.source_documents) = 4
    /\ lastCall.result =
          "\n\nSources:\n"
          \o "============================================================\n"
          \o "1. BMW Annual Report 2023\n   File: BMW_2023.pdf\n   Chunks referenced: 3\n"
          \o "2. Ford Annual Report 2022\n   File: Ford_2022.pdf\n   Chunks referenced: 1\n"

(***************************************************************************)
(* Properties of the chat shell, checked under SpecChat                    *)
(***************************************************************************)

\* C18: right after clear_history the conversation history read back is
\* empty, a query that follows it is answered with no turn from before the
\* clear as context (its first invocation gets an empty history, a second one
\* only what this query stored), and the shell's clear command, in any letter
\* case and with surrounding whitespace, calls clear_history and issues no query.
C18_ClearEmptiesConversation ==
    [][/\ lastCall'.op = "clear_history" =>
             /\ messages' = <<>>
             /\ get_conversation_history(messages') = <<>>
       /\ (lastCall.op = "clear_history" /\ lastCall'.op = "query") =>
             /\ lastCall'.invocations # <<>>
             /\ \A i \in 1..Len(lastCall'.invocations) :
                   lastCall'.invocations[i].chat_history
                      = SubSeq(messages', 1, 2 * (i - 1))
             /\ lastCall'.invocations[1].chat_history = <<>>
       /\ (chatCall'.op = "process_query"
           /\ chatCall'.user_input \in {"clear", " CLEAR ", "Clear\t"}) =>
             /\ chatCall'.engineCalls = <<"clear_history">>
             /\ lastCall'.op = "clear_history"
             /\ chatCall'.should_continue]_vars

\* C18 witness: " CLEAR " was typed after a conversation turn and emptied the history
C18_Witness ==
    /\ chatCall.op = "process_query"
    /\ chatCall.user_input = " CLEAR "
    /\ chatCall.engineCalls = <<"clear_history">>
    /\ lastCall.op = "clear_history"
    /\ lastCall.histBefore # <<>>
    /\ messages = <<>>

\* C25: the chat loop is left only by an exit command: whatever is typed,
\* whichever queries fail and whichever inputs or queries are interrupted, the
\* loop stays running; it stops, with running false, in the very step that
\* handles exit, quit or q (stripped, in any letter case), and once stopped it
\* reads no further input.
C25_LoopLeftOnlyByExit ==
    [][/\ (running /\ ~running') =>
             /\ chatCall'.op = "process_query"
             /\ chatCall'.user_input \in {"exit", " Quit", "Q"}
             /\ ~chatCall'.should_continue
             /\ UNCHANGED engineVars
       /\ (running /\ chatCall'.op = "process_query"
           /\ chatCall'.user_input \in {"exit", " Quit", "Q"}) => ~running'
       /\ (~running /\ chatCall.op # "__init__") => UNCHANGED vars]_vars

\* C25 witness: the loop went on after a query that failed and is stopped by " Quit"
C25_Witness ==
    /\ ~running
    /\ chatCall.op = "process_query"
    /\ chatCall.user_input = " Quit"
    /\ lastCall.op = "query"
    /\ ~lastCall.result.success

(***************************************************************************)
(* Properties of the document loader, checked under SpecDocs               *)
(***************************************************************************)

\* the documents of a list that come from the file of the given name
DocumentsOf(documents, name) ==
    SelectSeq(documents, LAMBDA d : d.metadata.source_file = name)

\* the page numbers of a list of documents, in order
PagesOf(documents) == [i \in 1..Len(documents) |-> documents[i].metadata.page]

\* the position of a file name in a list of files
PositionOf(files, name) == CHOOSE i \in 1..Len(files) : files[i].name = name

\* C19: load_pdfs_from_directory never raises; the fallback extraction is
\* tried for exactly the PDFs whose primary extraction throws or returns no
\* page; a file whose fallback fails too is skipped; and every other file's
\* documents are returned, in file order and page order.
C19_BadFileNeverAborts ==
    (docCall.op = "load_pdfs_from_directory" /\ docCall.directory.exists) =>
        LET pdfs == SelectSeq(docCall.directory.files,
                              LAMBDA f : f.name \in {"BMW_2023.pdf", "scan_2021.pdf",
                                                     "blank.pdf", "void2019.pdf",
                                                     "broken.pdf"})
            documents == docCall.loaded.documents
        IN  /\ ~docCall.loaded.raised
            /\ Len(docCall.loaded.files) = Len(pdfs)
            /\ \A k \in 1..Len(pdfs) :
                  LET f == pdfs[k]
                      mine == DocumentsOf(documents, f.name)
                  IN  /\ docCall.loaded.files[k].fallback
                            <=> (f.plumber = Raises \/ f.plumber = 0)
                      /\ f.plumber > 0 =>
                            PagesOf(mine) = [i \in 1..f.plumber |-> i]
                      /\ (f.plumber <= 0 /\ f.pypdf # Raises) =>
                            PagesOf(mine) = [i \in 1..f.pypdf |-> i - 1]
                      /\ (f.plumber <= 0 /\ f.pypdf = Raises) =>
                            /\ mine = <<>>
                            /\ docCall.loaded.files[k].skipped
            /\ \A i, j \in 1..Len(documents) :
                  i < j => PositionOf(pdfs, documents[i].metadata.source_file)
                              <= PositionOf(pdfs, documents[j].metadata.source_file)
            /\ \A i \in 1..Len(documents) :
                  documents[i].metadata.company = docCall.company

\* C19 witness: the first file could be read by neither extraction and the
\* pages of the file after it were returned
C19_Witness ==
    /\ docCall.op = "load_pdfs_from_directory"
    /\ Len(docCall.directory.files) = 2
    /\ docCall.directory.files[1].name = "broken.pdf"
    /\ docCall.directory.files[2].name = "scan_2021.pdf"
    /\ docCall.loaded.files[1].skipped
    /\ docCall.loaded.files[2].fallback
    /\ Len(docCall.loaded.documents) = 1
    /\ ~docCall.loaded.raised

\* a directory that is missing or holds no file named *.pdf
NothingToLoad(directory) ==
    \/ ~directory.exists
    \/ \A i \in 1..Len(directory.files) : directory.files[i].name = "notes.txt"

\* C20: a company whose directory is missing or holds no PDF file gives an
\* empty document sequence and no error, and load_all_documents returns the
\* documents of the other companies, in the order BMW, Tesla, Ford.
C20_MissingCompanySkipped ==
    /\ (docCall.op = "load_pdfs_from_directory" /\ NothingToLoad(docCall.directory)) =>
          /\ docCall.loaded.documents = <<>>
          /\ ~docCall.loaded.raised
    /\ docCall.op = "load_all_documents" =>
          LET documents == docCall.loaded.documents
              of(company) == SelectSeq(documents, LAMBDA d : d.metadata.company = company)
          IN  /\ ~docCall.loaded.raised
              /\ documents = of("BMW") \o of("Tesla") \o of("Ford")
              /\ \A company \in {"BMW", "Tesla", "Ford"} :
                    /\ NothingToLoad(docCall.data_dir[company]) => of(company) = <<>>
                    /\ of(company)
                          = load_pdfs_from_directory(company,
                                                     docCall.data_dir[company]).documents

\* C20 witness: BMW's directory is missing, Tesla's holds no PDF file, and
\* Ford's documents were returned
C20_Witness ==
    /\ docCall.op = "load_all_documents"
    /\ ~docCall.data_dir["BMW"].exists
    /\ docCall.data_dir["Tesla"].exists
    /\ NothingToLoad(docCall.data_dir["Tesla"])
    /\ docCall.loaded.documents # <<>>
    /\ \A i \in 1..Len(docCall.loaded.documents) :
          docCall.loaded.documents[i].metadata.company = "Ford"

\* C21: process_all_documents raises exactly when no document was loaded
\* from any company, and then chunk_documents is not called; with at least
\* one document loaded it calls chunk_documents and returns its chunks.
C21_NoDocumentsIsAnError ==
    docCall.op = "process_all_documents" =>
        LET done == docCall.done
            nothing == \A company \in {"BMW", "Tesla", "Ford"} :
                          load_pdfs_from_directory(company, docCall.data_dir[company]).documents
                             = <<>>
        IN  /\ done.raised <=> nothing
            /\ done.raised <=> (done.documents = <<>>)
            /\ done.raised => (~done.chunking /\ done.chunks = <<>> /\ done.error # "")
            /\ ~done.raised =>
                  /\ done.chunking
                  /\ done.chunks = chunk_documents(done.documents, docCall.config)

\* C21 witness: no directory had a readable PDF and the call raised without chunking
C21_Witness ==
    /\ docCall.op = "process_all_documents"
    /\ docCall.data_dir["BMW"].exists
    /\ ~docCall.data_dir["Ford"].exists
    /\ docCall.done.raised
    /\ ~docCall.done.chunking

\* "20" followed by two digits starts at position i of the name
TwentyAt(name, i) ==
    /\ i + 3 <= Len(name)
    /\ SubSeq(name, i, i + 1) = "20"
    /\ \E d \in 0..99 :
          SubSeq(name, i + 2, i + 3) = (IF d < 10 THEN "0" \o str(d) ELSE str(d))

\* C22: _extract_year_from_filename returns the leftmost 4-character
\* substring of the file name made of "20" and two digits, and "Unknown" when
\* there is none ("BMW_Report_2022_final.pdf" gives "2022", "report.pdf"
\* gives "Unknown"); every Document of the loader has this value of its file
\* as metadata.year and the scanned company as metadata.company.
C22_YearFromFilename ==
    /\ docCall.op = "_extract_year_from_filename" =>
          LET name == docCall.filename
          IN  /\ (\A i \in 1..Len(name) : ~TwentyAt(name, i)) => docCall.year = "Unknown"
              /\ \A i \in 1..Len(name) :
                    (TwentyAt(name, i) /\ \A j \in 1..(i - 1) : ~TwentyAt(name, j)) =>
                       docCall.year = SubSeq(name, i, i + 3)
              /\ name = "BMW_Report_2022_final.pdf" => docCall.year = "2022"
              /\ name = "report.pdf" => docCall.year = "Unknown"
    /\ docCall.op = "load_pdfs_from_directory" =>
          \A k \in 1..Len(docCall.loaded.documents) :
             LET metadata == docCall.loaded.documents[k].metadata
             IN  /\ metadata.company = docCall.company
                 /\ metadata.source_file = "BMW_2023.pdf" => metadata.year = "2023"
                 /\ metadata.source_file = "scan_2021.pdf" => metadata.year = "2021"
                 /\ metadata.source_file = "blank.pdf" => metadata.year = "Unknown"
                 /\ \A i \in 1..Len(metadata.source_file) :
                       (/\ TwentyAt(metadata.source_file, i)
                        /\ \A j \in 1..(i - 1) : ~TwentyAt(metadata.source_file, j)) =>
                          metadata.year = SubSeq(metadata.source_file, i, i + 3)

\* C22 witness: of the two years of "2021_vs_2023.pdf" the first was returned
C22_Witness ==
    /\ docCall.op = "_extract_year_from_filename"
    /\ docCall.filename = "2021_vs_2023.pdf"
    /\ docCall.year = "2021"

\* the text of each chunk of a list
TextsOf(chunks) == [k \in 1..Len(chunks) |-> chunks[k].page_content]

\* the chunks of the last chunk_documents call cut from its i-th document
ChunksOfDocument(i) ==
    LET ks == SelectSeq([k \in 1..Len(docCall.chunks) |-> k],
                        LAMBDA k : docCall.pieces[k].document = i)
    IN  [n \in 1..Len(ks) |-> docCall.chunks[ks[n]]]

\* C23: every chunk of chunk_documents has exactly the metadata of the
\* document it was cut from, and the chunks come grouped by document, in the
\* order of the input documents.
C23_ChunksInheritMetadata ==
    docCall.op = "chunk_documents" =>
        /\ Len(docCall.pieces) = Len(docCall.chunks)
        /\ \A k \in 1..Len(docCall.chunks) :
              LET parent == docCall.documents[docCall.pieces[k].document]
              IN  /\ docCall.chunks[k].metadata = parent.metadata
                  /\ DOMAIN docCall.chunks[k].metadata = DOMAIN parent.metadata
                  /\ docCall.chunks[k].page_content
                        = SubSeq(parent.page_content, docCall.pieces[k].lo,
                                 docCall.pieces[k].hi)
        /\ \A k, l \in 1..Len(docCall.chunks) :
              k < l => docCall.pieces[k].document <= docCall.pieces[l].document

\* C23 witness: two pages of one file were chunked, the second into several
\* chunks that all carry its page number
C23_Witness ==
    /\ docCall.op = "chunk_documents"
    /\ Len(docCall.documents) = 2
    /\ Len(ChunksOfDocument(1)) >= 1
    /\ Len(ChunksOfDocument(2)) >= 2
    /\ \A k \in 1..Len(docCall.chunks) :
          docCall.pieces[k].document = 2 => docCall.chunks[k].metadata.page = 1

\* the run of characters without whitespace around position p of a text
RECURSIVE TokenStart(_, _)
TokenStart(text, p) ==
    IF p > 1 /\ ~IsSpace(SubSeq(text, p - 1, p - 1)) THEN TokenStart(text, p - 1) ELSE p

RECURSIVE TokenEnd(_, _)
TokenEnd(text, p) ==
    IF p < Len(text) /\ ~IsSpace(SubSeq(text, p + 1, p + 1)) THEN TokenEnd(text, p + 1) ELSE p

\* a chunk boundary before position p falls inside a word: no whitespace on
\* either side of it and no ". " starting at p
CutsToken(text, p) ==
    /\ p > 1 /\ p <= Len(text)
    /\ ~IsSpace(SubSeq(text, p - 1, p - 1))
    /\ ~IsSpace(SubSeq(text, p, p))
    /\ p < Len(text) => SubSeq(text, p, p + 1) # ". "

\* C24: every chunk of chunk_documents is at most chunk_size long and
\* consecutive chunks of one document share at most chunk_overlap characters;
\* the text is cut at paragraph breaks first, then line breaks, then ". ",
\* then " ", and inside a word only when the word alone reaches chunk_size.
C24_ChunksBounded ==
    docCall.op = "chunk_documents" =>
        LET S == docCall.config.chunk_size
            O == docCall.config.chunk_overlap
        IN  /\ \A k \in 1..Len(docCall.chunks) :
                  /\ Len(docCall.chunks[k].page_content) <= S
                  /\ Len(docCall.chunks[k].page_content)
                        = docCall.pieces[k].hi - docCall.pieces[k].lo + 1
            /\ \A k \in 1..(Len(docCall.chunks) - 1) :
                  docCall.pieces[k].document = docCall.pieces[k + 1].document =>
                     /\ docCall.pieces[k].hi - docCall.pieces[k + 1].lo + 1 <= O
                     /\ docCall.pieces[k].lo < docCall.pieces[k + 1].lo
            /\ \A k \in 1..Len(docCall.chunks) :
                  LET text == docCall.documents[docCall.pieces[k].document].page_content
                      lo == docCall.pieces[k].lo
                      hi == docCall.pieces[k].hi
                  IN  /\ CutsToken(text, lo) =>
                            TokenEnd(text, lo) - TokenStart(text, lo) + 1 >= S
                      /\ CutsToken(text, hi + 1) =>
                            TokenEnd(text, hi) - TokenStart(text, hi) + 1 >= S
            /\ \A i \in 1..Len(docCall.documents) :
                  LET text == docCall.documents[i].page_content
                      texts == TextsOf(ChunksOfDocument(i))
                  IN  /\ (text = "Q1 up. net 5\n\nok then" /\ S = 8) =>
                            texts = <<"Q1 up", ". net 5", "ok then">>
                      /\ (text = "a b\nc d" /\ S = 5) => texts = <<"a b", "c d">>
                      /\ (text = "abcdefghij" /\ S = 4 /\ O = 0) =>
                            texts = <<"abcd", "efgh", "ij">>
                      /\ (text = "abcdefghij" /\ S = 5 /\ O = 2) =>
                            texts = <<"abcde", "defgh", "ghij">>
                      /\ Len(text) <= S =>
                            texts = (IF text = "" THEN <<>> ELSE <<text>>)

\* C24 witness: a text without separators was cut at character offsets into
\* chunks of chunk_size that overlap by chunk_overlap
C24_Witness ==
    /\ docCall.op = "chunk_documents"
    /\ docCall.config = [chunk_size |-> 5, chunk_overlap |-> 2]
    /\ Len(docCall.documents) = 1
    /\ TextsOf(docCall.chunks) = <<"abcde", "defgh", "ghij">>
    /\ docCall.pieces[1].hi - docCall.pieces[2].lo + 1 = 2

(***************************************************************************)
(* main.py: the engine constructed over the adapter                        *)
(***************************************************************************)

\* RAGEngine.__init__ over an adapter holding the handle vs: the exception it
\* raises (None when it returns) and the engine it yields (None when it raises)
RAGEngine_init(vs) ==
    IF vs = None
    THEN [raised |-> StoreNotLoaded, engine |-> None]
    ELSE [raised |-> None, engine |-> RAGEngine]

\* rag = RAGEngine(vs_manager): a new engine has an empty memory and the
\* default retriever settings; when the constructor raises the assignment is
\* not made
NewRAGEngine ==
    /\ LET out == RAGEngine_init(vectorstore)
       IN  /\ rag' = IF out.raised = None THEN out.engine ELSE rag
           /\ messages' = IF out.raised = None THEN <<>> ELSE messages
           /\ search_kwargs' = IF out.raised = None THEN DefaultSearchKwargs
                               ELSE search_kwargs
           /\ lastCall' = [op |-> "__init__", question |-> "", company |-> None,
                           year |-> None, histBefore |-> messages,
                           kwargsBefore |-> search_kwargs, invocations |-> <<>>,
                           result |-> QueryResult("", <<>>, FALSE),
                           raised |-> out.raised]
    /\ UNCHANGED <<storeVars, shellVars, docVars, setupCall>>

\* the first question put to an engine
FirstQuery == messages = <<>> /\ Query

NextMain ==
    \/ LoadVectorstore
    \/ DeleteVectorstore
    \/ NewRAGEngine
    \/ FirstQuery

SpecMain == InitAdapter /\ [][NextMain]_vars

(***************************************************************************)
(* Properties of engine construction, checked under SpecMain               *)
(***************************************************************************)

\* the step is a call of the named RAGEngine operation
EngineStep(op) == lastCall' # lastCall /\ lastCall'.op = op

\* C29: constructing a RAGEngine over an adapter whose handle is not set (no
\* create or load was called, or delete was called last) raises and yields no
\* engine, and no query runs while the adapter's handle is not set.
C29_NoQueryOnUninitializedAdapter ==
    [][/\ (EngineStep("__init__") /\ vectorstore = None) =>
              /\ lastCall'.raised = StoreNotLoaded
              /\ rag' = rag
       /\ EngineStep("query") =>
              /\ rag # None
              /\ vectorstore # None]_vars

(***************************************************************************)
(* setup.py: step 4 (the index is kept or rebuilt) and step 5              *)
(***************************************************************************)

\* what the user types at "Vector store already exists. Recreate? (y/N): "
SetupAnswers == {"y", "Y", "n", "N", "", "Yes", " y"}

\* the numbers of chunks step 3 hands to step 4: none, one, and one batch and one more
ChunkCounts == {0, 1, batch_size + 1}

\* how a run of setup.py ends from step 4 on
SetupRun(out, response, prompted, calls, exit) ==
    [store |-> out, response |-> response, prompted |-> prompted,
     calls |-> calls, exit |-> exit]

\* the three test queries of step 5: searchFailAt is the one whose search
\* raises (0: none), which ends the loop with a warning
VerifySearches(searchFailAt) ==
    [i \in 1..(IF searchFailAt = 0 THEN 3 ELSE searchFailAt) |-> "search"]

\* step 4 comparing the answer with 'y' as typed
setup_main_case_sensitive(response, eof, n, failAt, beforeClient, searchFailAt, db, coll) ==
    LET made == StoreOutcome(None, TRUE, db, coll, "returned", "", <<>>)
        exists == vectorstore_exists(made.dirExists, made.dbExists)
        first == <<"__init__", "vectorstore_exists">>
        deleted == delete_vectorstore(made.vectorstore, made.dirExists,
                                      made.dbExists, made.collection)
        start == IF exists THEN deleted ELSE made
        asked == IF exists THEN first \o <<"input", "delete_vectorstore">> ELSE first
        created == create_vectorstore(n, failAt, beforeClient, start.vectorstore,
                                      start.dirExists, start.dbExists, start.collection)
    IN  IF exists /\ eof
        THEN SetupRun(made, None, TRUE, first \o <<"input">>, 1)
        ELSE IF exists /\ response # "y"
        THEN SetupRun(made, response, TRUE, first \o <<"input">>, 0)
        ELSE IF created.outcome = "raised"
        THEN SetupRun(created, IF exists THEN response ELSE None, exists,
                      asked \o <<"create_vectorstore">>, 1)
        ELSE SetupRun(created, IF exists THEN response ELSE None, exists,
                      asked \o <<"create_vectorstore">> \o VerifySearches(searchFailAt), 0)

\* main() of setup.py from step 4 on, over a disk (db, coll), with n chunks
\* from step 3: a new adapter; when an index exists the user is asked (eof:
\* input() raised EOFError) and anything but y or Y keeps it; otherwise the
\* index is deleted, then created; a failure exits with status 1; then the
\* test queries of step 5
setup_main(response, eof, n, failAt, beforeClient, searchFailAt, db, coll) ==
    LET made == StoreOutcome(None, TRUE, db, coll, "returned", "", <<>>)
        exists == vectorstore_exists(made.dirExists, made.dbExists)
        first == <<"__init__", "vectorstore_exists">>
        deleted == delete_vectorstore(made.vectorstore, made.dirExists,
                                      made.dbExists, made.collection)
        start == IF exists THEN deleted ELSE made
        asked == IF exists THEN first \o <<"input", "delete_vectorstore">> ELSE first
        created == create_vectorstore(n, failAt, beforeClient, start.vectorstore,
                                      start.dirExists, start.dbExists, start.collection)
    IN  IF exists /\ eof
        THEN SetupRun(made, None, TRUE, first \o <<"input">>, 1)
        ELSE IF exists /\ lower(response) # "y"
        THEN SetupRun(made, response, TRUE, first \o <<"input">>, 0)
        ELSE IF created.outcome = "raised"
        THEN SetupRun(created, IF exists THEN response ELSE None, exists,
                      asked \o <<"create_vectorstore">>, 1)
        ELSE SetupRun(created, IF exists THEN response ELSE None, exists,
                      asked \o <<"create_vectorstore">> \o VerifySearches(searchFailAt), 0)

\* the calls of a run name the adapter operation
Makes(run, op) == \E i \in 1..Len(run.calls) : run.calls[i] = op

SetupMain ==
    /\ \E response \in SetupAnswers, eof \in BOOLEAN :
          LET probe == setup_main(response, eof, 0, 0, FALSE, 0, dbExists, collection)
              creates == Makes(probe, "create_vectorstore")
          IN  /\ eof => response = "y"
              /\ ~probe.prompted => (response = "y" /\ ~eof)
              /\ \E n \in (IF creates THEN ChunkCounts ELSE {0}) :
                 \E failAt \in (IF creates THEN 0..Len(Batches(n)) ELSE {0}) :
                 \E beforeClient \in (IF failAt = 1 THEN BOOLEAN ELSE {FALSE}) :
                 \E searchFailAt \in (IF creates /\ failAt = 0 THEN 0..3 ELSE {0}) :
                    LET run == setup_main(response, eof, n, failAt, beforeClient,
                                          searchFailAt, dbExists, collection)
                    IN  /\ StoreEffect(run.store)
                        /\ initialized' = (creates /\ run.exit = 0)
                        /\ persistTried' = (dbExists \/ creates)
                        /\ vsCall' = [op |-> "main"]
                        /\ setupCall' = [op |-> "main", response |-> run.response,
                                         prompted |-> run.prompted, calls |-> run.calls,
                                         exit |-> run.exit,
                                         arg |-> [n |-> n, failAt |-> failAt],
                                         before |-> [dbExists |-> dbExists,
                                                     collection |-> collection]]
    /\ UNCHANGED <<engineVars, shellVars, docVars, rag>>

NextSetup ==
    \/ SetupMain

SpecSetup == InitAdapter /\ [][NextSetup]_vars

(***************************************************************************)
(* Properties of the setup command, checked under SpecSetup                *)
(***************************************************************************)

\* the adapter operation is among the calls the last run of setup.py made
SetupCalls(op) == \E i \in 1..Len(setupCall.calls) : setupCall.calls[i] = op

\* C30: when a persisted index exists, setup deletes and recreates it only if
\* the user answers y in either case, and then delete_vectorstore precedes
\* create_vectorstore; for any other answer neither is called and the index is
\* left unchanged; when no index exists, create is called without a prompt and
\* without a delete.
C30_RecreateOnlyOnYes ==
    setupCall.op = "main" =>
        LET existed == setupCall.before.dbExists
            c == setupCall.calls
            yes == setupCall.response \in {"y", "Y"}
        IN  /\ setupCall.prompted = existed
            /\ (existed /\ yes) =>
                  /\ SetupCalls("delete_vectorstore") /\ SetupCalls("create_vectorstore")
                  /\ \A j \in 1..Len(c) : c[j] = "create_vectorstore" =>
                        \E i \in 1..(j - 1) : c[i] = "delete_vectorstore"
            /\ (existed /\ ~yes) =>
                  /\ ~SetupCalls("delete_vectorstore") /\ ~SetupCalls("create_vectorstore")
                  /\ collection = setupCall.before.collection
                  /\ dbExists = setupCall.before.dbExists
            /\ ~existed =>
                  /\ ~SetupCalls("input") /\ ~SetupCalls("delete_vectorstore")
                  /\ SetupCalls("create_vectorstore")

\* C30 witness: over an index of one entry the user answered Y; the index was
\* deleted, then created from 101 chunks, and holds those only
C30_Witness ==
    /\ setupCall.op = "main"
    /\ setupCall.before.collection = <<1>>
    /\ setupCall.response = "Y"
    /\ setupCall.calls = <<"__init__", "vectorstore_exists", "input",
                           "delete_vectorstore", "create_vectorstore",
                           "search", "search", "search">>
    /\ Len(collection) = 101

====
